---- MODULE Spec2Model ----
(***************************************************************************)
(* Reconciliation loops of the hmc control plane.                          *)
(*                                                                         *)
(*   Spec      the ManagedCluster lifecycle loop                           *)
(*             (internal/controller/managedcluster_controller.go):         *)
(*             Reconcile, Update, updateServices, updateStatus, Delete,    *)
(*             releaseCluster, with the release engine, the infrastructure *)
(*             provider and the user as the environment.                   *)
(*   SpecMgmt  the Management (component installer) loop                   *)
(*             (internal/controller/management_controller.go).             *)
(*                                                                         *)
(* The variables are the objects persisted in the API server.  One         *)
(* reconcile pass is one action: the API calls of a pass that can fail are *)
(* inputs of the action, and the pass leaves a record of what it did       *)
(* (mcPass, mgPass), which the properties read.                            *)
(***************************************************************************)
EXTENDS Integers, Sequences, FiniteSets, TLC

VARIABLES
    mcPresent,        \* the ManagedCluster object exists in the API server
    mcDeleting,       \* metadata.deletionTimestamp is set
    mcFinalizer,      \* metadata.finalizers holds ManagedClusterFinalizer
    mcDryRun,         \* spec.dryRun
    mcObservedGeneration, \* status.observedGeneration
    mcConditions,     \* status.conditions: condition type -> status, "None" when absent
    tmplProviders,    \* ClusterTemplate status.providers.infrastructure, as deletion reads it
    hr,               \* the primary HelmRelease: "absent" | "present" | "deleting"
    profile,          \* the add-on ClusterProfile: "absent" | "present"
    infra,            \* provider -> "absent" | "blocked" (has BlockingFinalizer) | "released"
    machines,         \* provider -> number of machines labelled with the infra object's name
    profileDeleteIssued, \* history: DeleteClusterProfile has returned without error
    hrDeleteIssued,   \* history: DeleteHelmRelease has returned without error
    hrSeenInDelete,   \* history: a deletion pass has found the primary release
    mcPass,           \* what the last ManagedCluster pass did
    mgmt,             \* the Management object
    mgTemplates,      \* template name -> "missing" | "invalid" | "valid"
    mgHmcRelease,     \* the release of the core HMC component: "absent" | "active" | "suspended"
    mgPass,           \* what the last Management pass did
    tvSpec,           \* Template spec.helm: "chartRef" | "chartRefOtherKind" | "chartName" | "none"
    tvStatus,         \* the persisted Template status
    tvEnv,          \* what the chart and its collaborators do to the next pass
    tvHealed,         \* the chart and its collaborators have stopped failing for good
    tvQueued,         \* a reconcile request for the Template is in the work queue
    tvPass,           \* what the last Template pass did
    svcServices,      \* ManagedCluster spec.services
    svcTemplates,     \* what resolving each ServiceTemplate meets
    svcProfile,       \* the add-on ClusterProfile and its helm chart entries
    svcPass,          \* what the last add-on pass did
    pmTemplate,       \* the Template whose chart metadata is parsed: spec and persisted status
    pmChart,          \* the downloaded chart: its metadata annotations, or no metadata
    pmEnv,            \* what chart.Validate and the status write do in the next pass
    pmPass,           \* what the last pass over the downloaded chart did
    cfKind,           \* the kind of the object whose writes are followed
    cfObject,         \* that object as the API server holds it, with its resourceVersion
    cfCopy,           \* the copy the running pass has fetched, with its changes in memory
    cfPc,             \* where the reconciler of that object is: "idle" | "fetched"
    cfPass,           \* the calls and the result of the running or the last pass
    whTemplate,       \* the ClusterTemplate or ServiceTemplate whose deletion is requested
    whClusters,       \* the ManagedClusters that exist
    whResult,         \* the answer of the admission webhook to the last request
    pvValidator,      \* the ProviderValidator of the end-to-end tests: its fields
    pvCall,           \* what the last call of Validate did
    ruTemplate,       \* a ServiceTemplate: its name, namespace and spec.helm
    ruStatus,         \* the status of the ServiceTemplate: chartRef, valid
    ruCharts,         \* the HelmChart objects that exist, by namespace and name
    ruRepos,          \* the namespaces whose HelmRepository exists
    ruLookup          \* what the last getServiceTemplateRepoURL did

mcVars == <<mcPresent, mcDeleting, mcFinalizer, mcDryRun, mcObservedGeneration,
            mcConditions, tmplProviders, hr, profile, infra, machines,
            profileDeleteIssued, hrDeleteIssued, hrSeenInDelete, mcPass>>
mgVars == <<mgmt, mgTemplates, mgHmcRelease, mgPass>>
tvVars == <<tvSpec, tvStatus, tvEnv, tvHealed, tvQueued, tvPass>>
svVars == <<svcServices, svcTemplates, svcProfile, svcPass>>
pmVars == <<pmTemplate, pmChart, pmEnv, pmPass>>
cfVars == <<cfKind, cfObject, cfCopy, cfPc, cfPass>>
whVars == <<whTemplate, whClusters, whResult>>
pvVars == <<pvValidator, pvCall>>
ruVars == <<ruTemplate, ruStatus, ruCharts, ruRepos, ruLookup>>
vars == <<mcVars, mgVars, tvVars, svVars, pmVars, cfVars, whVars, pvVars, ruVars>>

(***************************************************************************)
(* Bounds and program constants                                            *)
(***************************************************************************)
\* machines per infrastructure object
MaxMachines == 1
\* metadata.generation of the objects (the spec is not edited in the model)
Generation == 1
\* DefaultRequeueInterval, in seconds
DefaultRequeueInterval == 10
\* templates of the system namespace that are missing or not valid
MaxBadTemplates == 1
\* calls of one installer pass that fail for a reason outside the templates
MaxFaults == 1
\* passes counted since the environment last changed something
MaxPasses == 2

(***************************************************************************)
(* Conditions                                                              *)
(***************************************************************************)
NoCond == "None"
CondStatuses == {"True", "False", "Unknown"}
TemplateReadyCondition == "TemplateReady"
HelmChartReadyCondition == "HelmChartReady"
HelmReleaseReadyCondition == "HelmReleaseReady"
ReadyCondition == "Ready"
\* condition types the generated CAPI Cluster object reports
InfraCondTypes == {"Ready", "ControlPlaneReady"}
CondTypes == {TemplateReadyCondition, HelmChartReadyCondition,
              HelmReleaseReadyCondition, ReadyCondition} \cup InfraCondTypes
NoConditions == [t \in CondTypes |-> NoCond]

\* apimeta.SetStatusCondition: one condition per type, the new status replaces the old
SetStatusCondition(conds, type, status) == [conds EXCEPT ![type] = status]

\* ManagedCluster.InitConditions
InitConditions(dryRun) ==
    [t \in CondTypes |->
        IF t \in {TemplateReadyCondition, HelmChartReadyCondition, ReadyCondition}
           \/ (t = HelmReleaseReadyCondition /\ ~dryRun)
        THEN "Unknown" ELSE NoCond]

\* a bug: a condition that is Unknown hides one that is False
AggregateReadyUnknownFirst(conds) ==
    IF \E t \in CondTypes \ {ReadyCondition} : conds[t] = "Unknown" THEN "Unknown"
    ELSE IF \E t \in CondTypes \ {ReadyCondition} : conds[t] = "False" THEN "False"
    ELSE "True"

\* updateStatus: the aggregate Ready from the conditions of every other type
AggregateReady(conds) ==
    IF \E t \in CondTypes \ {ReadyCondition} : conds[t] = "False" THEN "False"
    ELSE IF \E t \in CondTypes \ {ReadyCondition} : conds[t] = "Unknown" THEN "Unknown"
    ELSE "True"

(***************************************************************************)
(* Records of a pass                                                       *)
(***************************************************************************)
Call(c, a, o) == [call |-> c, arg |-> a, out |-> o]
IdlePass == [op |-> "none", calls |-> <<>>, err |-> FALSE, requeueAfter |-> 0,
             panic |-> FALSE]
Pass(op, calls, err, requeue) ==
    [op |-> op, calls |-> calls, err |-> err, requeueAfter |-> requeue, panic |-> FALSE]
Called(p, c) == \E i \in DOMAIN p.calls : p.calls[i].call = c
CalledOn(p, c, a) == \E i \in DOMAIN p.calls : p.calls[i].call = c /\ p.calls[i].arg = a
CallOut(p, c, a, o) ==
    \E i \in DOMAIN p.calls : p.calls[i] = Call(c, a, o)

(***************************************************************************)
(* API calls of a pass.  At most one call of a deletion pass fails (the    *)
(* pass ends at its first error); the failing call is an input.            *)
(***************************************************************************)
Fail(c, a) == [call |-> c, arg |-> a]
NoFail == Fail("none", "-")

\* the infrastructure provider lists a template may carry: none, one recognised
\* provider, two recognised providers, an unrecognised name before a recognised one
TemplateProviderLists ==
    {<<>>, <<"aws">>, <<"aws", "azure">>, <<"vsphere", "azure">>}

\* provider names a template may list; providerGVKs maps only some of them
ProviderNames == {"aws", "azure", "vsphere"}
providerGVKs == {"aws", "azure"}

(***************************************************************************)
(* ManagedCluster deletion: Delete, releaseCluster                         *)
(***************************************************************************)
\* a bug: the finalizer is removed on any outcome of the Get but an error
DeleteRemovesFinalizerIfNoError(lookup) == lookup # "error"

\* Delete: the finalizer is removed when the Get of the HelmRelease is NotFound
DeleteRemovesFinalizer(lookup) == lookup = "notfound"

\* machinesAvailable: a List with Limit 1 of the machines labelled with the cluster name
machinesAvailable(p) == machines[p] # 0

\* a bug: the blocking finalizer is given up whether or not a machine was found
GateReleasesAlways(found) == TRUE

\* releaseCluster: the blocking finalizer is given up when no machine was found
GateReleases(found) == ~found

\* a bug: another finalizer name is removed, so no change is ever reported
RemoveBlockingFinalizerNever(state) == FALSE

\* controllerutil.RemoveFinalizer(cluster, BlockingFinalizer) reports a change
RemoveBlockingFinalizer(state) == state = "blocked"

\* removeClusterFinalizer: [calls, err, infra]
removeClusterFinalizer(p, fail, inf) ==
    IF RemoveBlockingFinalizer(inf[p])
    THEN IF fail = Fail("Patch", p)
         THEN [calls |-> <<Call("Patch", p, "error")>>, err |-> TRUE, infra |-> inf]
         ELSE [calls |-> <<Call("Patch", p, "ok")>>, err |-> FALSE,
               infra |-> [inf EXCEPT ![p] = "released"]]
    ELSE [calls |-> <<>>, err |-> FALSE, infra |-> inf]

\* releaseCluster, the loop over the providers from index i: [calls, err, infra]
RECURSIVE releaseLoop(_, _, _, _)
releaseLoop(provs, i, fail, inf) ==
    IF i > Len(provs) THEN [calls |-> <<>>, err |-> FALSE, infra |-> inf]
    ELSE LET p == provs[i] IN
         IF p \notin providerGVKs THEN releaseLoop(provs, i + 1, fail, inf)
         ELSE IF fail = Fail("getCluster", p)
         THEN [calls |-> <<Call("getCluster", p, "error")>>, err |-> TRUE, infra |-> inf]
         ELSE IF inf[p] = "absent"
         THEN [calls |-> <<Call("getCluster", p, "notfound")>>, err |-> TRUE, infra |-> inf]
         ELSE IF fail = Fail("machinesAvailable", p)
         THEN [calls |-> <<Call("getCluster", p, inf[p]),
                           Call("machinesAvailable", p, "error")>>,
               err |-> TRUE, infra |-> inf]
         ELSE LET found == machinesAvailable(p)
                  seen == <<Call("getCluster", p, inf[p]),
                            Call("machinesAvailable", p, IF found THEN "true" ELSE "false")>>
              IN IF GateReleases(found)
                 THEN LET r == removeClusterFinalizer(p, fail, inf)
                      IN [calls |-> seen \o r.calls, err |-> r.err, infra |-> r.infra]
                 ELSE LET r == releaseLoop(provs, i + 1, fail, inf)
                      IN [calls |-> seen \o r.calls, err |-> r.err, infra |-> r.infra]

\* releaseCluster: getProviders, then the loop
releaseCluster(fail) ==
    IF fail = Fail("getProviders", "-")
    THEN [calls |-> <<Call("getProviders", "-", "error")>>, err |-> TRUE, infra |-> infra]
    ELSE LET r == releaseLoop(tmplProviders, 1, fail, infra)
         IN [calls |-> <<Call("getProviders", "-", "ok")>> \o r.calls,
             err |-> r.err, infra |-> r.infra]

\* the calls of a deletion pass that may fail
DeleteFailPoints ==
    {NoFail, Fail("GetHelmRelease", "-"), Fail("UpdateManagedCluster", "-"),
     Fail("DeleteClusterProfile", "-"), Fail("DeleteHelmRelease", "-"),
     Fail("getProviders", "-")}
    \cup {Fail(c, p) : c \in {"getCluster", "machinesAvailable", "Patch"}, p \in providerGVKs}

\* the Get of the primary HelmRelease at the start of Delete
LookupRelease(fail) ==
    IF fail = Fail("GetHelmRelease", "-") THEN "error"
    ELSE IF hr = "absent" THEN "notfound" ELSE "found"

\* Delete, Get NotFound: remove the finalizer and write the object
DeleteFinish(fail, lookup) ==
    LET get == Call("GetHelmRelease", "-", lookup)
        frame == /\ UNCHANGED <<mcDeleting, mcDryRun, mcObservedGeneration, mcConditions,
                                tmplProviders, hr, profile, infra, machines,
                                profileDeleteIssued, hrDeleteIssued, hrSeenInDelete>>
    IN IF ~mcFinalizer
       THEN /\ mcPass' = Pass("Delete", <<get>>, FALSE, 0)
            /\ UNCHANGED <<mcFinalizer, mcPresent>>
            /\ frame
       ELSE IF fail = Fail("UpdateManagedCluster", "-")
       THEN /\ mcPass' = Pass("Delete", <<get, Call("UpdateManagedCluster", "-", "error")>>,
                              TRUE, 0)
            /\ UNCHANGED <<mcFinalizer, mcPresent>>
            /\ frame
       ELSE /\ mcPass' = Pass("Delete", <<get, Call("UpdateManagedCluster", "-", "ok")>>,
                              FALSE, 0)
            /\ mcFinalizer' = FALSE
            \* the API server drops an object under deletion with no finalizer left
            /\ mcPresent' = FALSE
            /\ frame

\* a bug: the release is deleted before the profile
TeardownStepsReleaseFirst ==
    <<"DeleteHelmRelease", "DeleteClusterProfile", "releaseCluster">>

\* Delete, release found (lines 1185-1199): the steps, in the order of the code
TeardownSteps == <<"DeleteClusterProfile", "DeleteHelmRelease", "releaseCluster">>

\* one step of the teardown on acc = [calls, err, profile, hr, infra, pdi, hdi]
teardownStep(step, fail, acc) ==
    CASE step = "DeleteClusterProfile" ->
            IF fail = Fail(step, "-")
            THEN [acc EXCEPT !.calls = Append(@, Call(step, "-", "error")), !.err = TRUE]
            ELSE [acc EXCEPT !.calls = Append(@, Call(step, "-", "ok")),
                             !.profile = "absent", !.pdi = TRUE]
      [] step = "DeleteHelmRelease" ->
            IF fail = Fail(step, "-")
            THEN [acc EXCEPT !.calls = Append(@, Call(step, "-", "error")), !.err = TRUE]
            ELSE [acc EXCEPT !.calls = Append(@, Call(step, "-", "ok")),
                             !.hr = "deleting", !.hdi = TRUE]
      [] OTHER ->
            LET r == releaseCluster(fail)
            IN [acc EXCEPT !.calls = @ \o r.calls, !.err = r.err, !.infra = r.infra]

RECURSIVE teardownGoesOn(_, _, _, _)
\* a bug: a step that fails does not end the pass
teardownGoesOn(steps, k, fail, acc) ==
    IF k > Len(steps) THEN acc
    ELSE teardownGoesOn(steps, k + 1, fail, teardownStep(steps[k], fail, acc))

\* the steps from the k-th on; the first error ends the pass
RECURSIVE teardown(_, _, _, _)
teardown(steps, k, fail, acc) ==
    IF k > Len(steps) \/ acc.err THEN acc
    ELSE teardown(steps, k + 1, fail, teardownStep(steps[k], fail, acc))

DeleteTeardown(fail, lookup) ==
    \E r \in {teardown(TeardownSteps, 1, fail,
                      [calls |-> <<Call("GetHelmRelease", "-", lookup)>>, err |-> FALSE,
                       profile |-> profile, hr |-> hr, infra |-> infra,
                       pdi |-> profileDeleteIssued, hdi |-> hrDeleteIssued])} :
       /\ mcPass' = Pass("Delete", r.calls, r.err,
                         IF r.err THEN 0 ELSE DefaultRequeueInterval)
       /\ profile' = r.profile
       /\ profileDeleteIssued' = r.pdi
       /\ hr' = r.hr
       /\ hrDeleteIssued' = r.hdi
       /\ infra' = r.infra
       /\ hrSeenInDelete' = TRUE
       /\ UNCHANGED <<mcPresent, mcDeleting, mcFinalizer, mcDryRun, mcObservedGeneration,
                      mcConditions, tmplProviders, machines>>

\* ManagedClusterReconciler.Delete
Delete(fail) ==
    LET lookup == LookupRelease(fail)
    IN IF lookup = "error"
       THEN /\ mcPass' = Pass("Delete", <<Call("GetHelmRelease", "-", "error")>>, TRUE, 0)
            /\ UNCHANGED <<mcPresent, mcDeleting, mcFinalizer, mcDryRun,
                           mcObservedGeneration, mcConditions, tmplProviders, hr, profile,
                           infra, machines, profileDeleteIssued, hrDeleteIssued,
                           hrSeenInDelete>>
       ELSE IF DeleteRemovesFinalizer(lookup)
       THEN DeleteFinish(fail, lookup)
       ELSE DeleteTeardown(fail, lookup)

\* the failure chosen is one the pass meets (every input gives a different pass)
DeleteMeets(fail, p) ==
    fail = NoFail \/ \E i \in DOMAIN p.calls :
        /\ p.calls[i].call = fail.call /\ p.calls[i].arg = fail.arg
        /\ p.calls[i].out = "error"

\* Reconcile of an object under deletion
ReconcileDelete ==
    /\ mcPresent /\ mcDeleting
    /\ \E fail \in DeleteFailPoints :
        /\ Delete(fail)
        /\ DeleteMeets(fail, mcPass')
    /\ UNCHANGED <<mgVars, tvVars, svVars, pmVars, cfVars, whVars, pvVars, ruVars>>

(***************************************************************************)
(* ManagedCluster update: Reconcile, Update, setStatusFromClusterStatus,   *)
(* updateServices, updateStatus                                            *)
(***************************************************************************)
\* what the List of the generated CAPI Cluster object gives
InfraReports == [InfraCondTypes -> CondStatuses \cup {NoCond}]
NoInfraReport == [t \in InfraCondTypes |-> NoCond]
Capi(k, c) == [kind |-> k, conds |-> c]
CapiInputs ==
    {Capi(k, NoInfraReport) : k \in {"notfound", "listerror", "noconds", "malformed"}}
    \cup {Capi("found", c) : c \in InfraReports}
NoCapi == Capi("-", NoInfraReport)

\* setStatusFromClusterStatus: every reported condition is True
allConditionsComplete(report) ==
    \A t \in InfraCondTypes : report[t] \in {NoCond, "True"}

\* setStatusFromClusterStatus: the reported conditions are copied into the set
CopyInfraConditions(conds, report) ==
    [t \in CondTypes |->
        IF t \in InfraCondTypes /\ report[t] # NoCond THEN report[t] ELSE conds[t]]

\* a bug: a Cluster object that is not found is an error
setStatusFromClusterStatusNotFoundFails(conds, capi) ==
    CASE capi.kind = "listerror" ->
            [conds |-> conds, requeue |-> FALSE, err |-> TRUE, panic |-> TRUE]
      [] capi.kind \in {"notfound", "noconds", "malformed"} ->
            [conds |-> conds, requeue |-> TRUE, err |-> TRUE, panic |-> FALSE]
      [] OTHER ->
            [conds |-> CopyInfraConditions(conds, capi.conds),
             requeue |-> ~allConditionsComplete(capi.conds),
             err |-> FALSE, panic |-> FALSE]

\* setStatusFromClusterStatus: [conds, requeue, err, panic]
setStatusFromClusterStatus(conds, capi) ==
    CASE capi.kind = "notfound" ->
            [conds |-> conds, requeue |-> TRUE, err |-> FALSE, panic |-> FALSE]
      [] capi.kind = "listerror" ->
            \* err is not NotFound and list is nil: len(list.Items) dereferences nil
            [conds |-> conds, requeue |-> FALSE, err |-> TRUE, panic |-> TRUE]
      [] capi.kind \in {"noconds", "malformed"} ->
            [conds |-> conds, requeue |-> TRUE, err |-> TRUE, panic |-> FALSE]
      [] OTHER ->
            [conds |-> CopyInfraConditions(conds, capi.conds),
             requeue |-> ~allConditionsComplete(capi.conds),
             err |-> FALSE, panic |-> FALSE]

\* the inputs of an update pass past the finalizer step: the outcome of each step
\* it reaches ("-" for a step it does not reach)
In(t, c, r, k, s) == [tmpl |-> t, chart |-> c, release |-> r, capi |-> k, svc |-> s]
UpdateInputs ==
    {In(t, "-", "-", NoCapi, "-") : t \in {"notfound", "error", "invalid"}}
    \cup {In("valid", c, "-", NoCapi, "-") :
            c \in {"nosource", "dlfail", "initfail", "badvalues", "ok"}}
    \cup {In("valid", "ok", "error", NoCapi, "-")}
    \cup {In("valid", "ok", r, k, "-") : r \in CondStatuses \cup {NoCond}, k \in CapiInputs}
    \cup {In("valid", "ok", "True", Capi("found", c), s) :
            c \in {x \in InfraReports : allConditionsComplete(x)},
            s \in {"resolveError", "profileError", "ok"}}

\* a bug: status.valid is not looked at
TemplateUsableIfFound(t) == t \in {"valid", "invalid"}

\* Update: the template check, TemplateReady is True only for a template marked valid
TemplateUsable(t) == t = "valid"

\* a bug: DryRun is not looked at
StopsAtDryRunNever(dryRun) == FALSE

\* Update: DryRun returns before the release is reconciled
StopsAtDryRun(dryRun) == dryRun

\* a bug: the readiness of the release is not looked at
ReachesServicesWithoutRelease(requeue, releaseReady) == ~requeue

\* Update: the profile is reconciled only with every infra condition True and the release ready
ReachesServices(requeue, releaseReady) == ~requeue /\ releaseReady = "True"

\* the result of the body of Update (before the deferred updateStatus)
Body(calls, conds, err, requeue, h, pr) ==
    [calls |-> calls, conds |-> conds, err |-> err, requeueAfter |-> requeue,
     hr |-> h, profile |-> pr, panic |-> FALSE]

\* updateServices
updateServices(in, calls, conds, h) ==
    IF in.svc = "resolveError"
    THEN Body(calls \o <<Call("ResolveServices", "-", "error")>>, conds, TRUE, 0, h, profile)
    ELSE IF in.svc = "profileError"
    THEN Body(calls \o <<Call("ResolveServices", "-", "ok"),
                         Call("ReconcileClusterProfile", "-", "error")>>,
              conds, TRUE, 0, h, profile)
    ELSE Body(calls \o <<Call("ResolveServices", "-", "ok"),
                         Call("ReconcileClusterProfile", "-", "ok")>>,
              conds, FALSE, DefaultRequeueInterval, h, "present")

\* Update from the release reconcile on (lines 943-990)
UpdateRelease(in, calls0, conds0) ==
    IF in.release = "error"
    THEN Body(calls0 \o <<Call("ReconcileHelmRelease", "-", "error")>>,
              SetStatusCondition(conds0, HelmReleaseReadyCondition, "False"),
              TRUE, 0, hr, profile)
    ELSE LET h == IF hr = "absent" THEN "present" ELSE hr
             \* the argument is the Ready condition of the release returned
             calls1 == calls0 \o <<Call("ReconcileHelmRelease", in.release, "ok")>>
             conds1 == IF in.release # NoCond
                       THEN SetStatusCondition(conds0, HelmReleaseReadyCondition, in.release)
                       ELSE conds0
             st == setStatusFromClusterStatus(conds1, in.capi)
             \* the argument tells whether every condition of a Cluster found is True
             \* and, if not, whether one of them is False
             calls2 == calls1 \o <<Call("ListClusters",
                                        IF in.capi.kind # "found" THEN "-"
                                        ELSE IF allConditionsComplete(in.capi.conds)
                                        THEN "complete"
                                        ELSE IF \E t \in InfraCondTypes :
                                                    in.capi.conds[t] = "False"
                                        THEN "false" ELSE "incomplete",
                                        in.capi.kind)>>
         IN IF st.panic
            THEN [Body(calls2, st.conds, TRUE, 0, h, profile) EXCEPT !.panic = TRUE]
            ELSE IF st.err
            THEN Body(calls2, st.conds, TRUE,
                      IF st.requeue THEN DefaultRequeueInterval ELSE 0, h, profile)
            ELSE IF ~ReachesServices(st.requeue, in.release)
            THEN Body(calls2, st.conds, FALSE, DefaultRequeueInterval, h, profile)
            ELSE updateServices(in, calls2, st.conds, h)

\* Update from the chart source on (lines 890-941)
UpdateChart(in, calls0, conds0) ==
    CASE in.chart = "nosource" ->
            Body(calls0 \o <<Call("getSource", "-", "error")>>,
                 SetStatusCondition(conds0, HelmChartReadyCondition, "False"),
                 TRUE, 0, hr, profile)
      [] in.chart = "dlfail" ->
            Body(calls0 \o <<Call("getSource", "-", "ok"),
                             Call("DownloadChartFromArtifact", "-", "error")>>,
                 SetStatusCondition(conds0, HelmChartReadyCondition, "False"),
                 TRUE, 0, hr, profile)
      [] in.chart = "initfail" ->
            \* actionConfig.Init fails: the error is returned and no condition is set
            Body(calls0 \o <<Call("getSource", "-", "ok"),
                             Call("DownloadChartFromArtifact", "-", "ok"),
                             Call("actionConfigInit", "-", "error")>>,
                 conds0, TRUE, 0, hr, profile)
      [] in.chart = "badvalues" ->
            Body(calls0 \o <<Call("getSource", "-", "ok"),
                             Call("DownloadChartFromArtifact", "-", "ok"),
                             Call("actionConfigInit", "-", "ok"),
                             Call("validateReleaseWithValues", "-", "error")>>,
                 SetStatusCondition(conds0, HelmChartReadyCondition, "False"),
                 TRUE, 0, hr, profile)
      [] OTHER ->
            LET calls1 == calls0 \o <<Call("getSource", "-", "ok"),
                                      Call("DownloadChartFromArtifact", "-", "ok"),
                                      Call("actionConfigInit", "-", "ok"),
                                      Call("validateReleaseWithValues", "-", "ok")>>
                conds1 == SetStatusCondition(conds0, HelmChartReadyCondition, "True")
            IN IF StopsAtDryRun(mcDryRun)
               THEN Body(calls1, conds1, FALSE, 0, hr, profile)
               ELSE UpdateRelease(in, calls1, conds1)

\* the body of Update past the finalizer step (lines 850-990)
UpdateBody(in) ==
    LET conds0 == IF mcConditions = NoConditions
                  THEN InitConditions(mcDryRun) ELSE mcConditions
        get == <<Call("GetTemplate", "-", in.tmpl)>>
    IN IF ~TemplateUsable(in.tmpl)
       THEN Body(get, SetStatusCondition(conds0, TemplateReadyCondition, "False"),
                 TRUE, 0, hr, profile)
       ELSE UpdateChart(in, get, SetStatusCondition(conds0, TemplateReadyCondition, "True"))

\* the steps of the body that the state decides: which inputs a pass can meet
UpdateMeets(in) ==
    /\ (in.tmpl = "valid" /\ in.chart = "ok") => (in.release = "-" <=> mcDryRun)
    \* a release created by this pass has no Ready condition and no cluster yet
    /\ (hr = "absent" /\ in.release \notin {"-", "error"}) =>
            (in.release = NoCond /\ in.capi.kind = "notfound")
    /\ (in.release = "True" /\ in.capi.kind = "found"
            /\ allConditionsComplete(in.capi.conds)) => in.svc # "-"

\* updateStatus, deferred: Ready is aggregated and the status written
updateStatus(conds) == SetStatusCondition(conds, ReadyCondition, AggregateReady(conds))

\* a bug: the status is written only by a pass whose body returns no error
UpdatePassWritesOnSuccess(in, statusErr) ==
    \E b \in {UpdateBody(in)} :
    LET written == updateStatus(b.conds)
        wrote == ~b.err /\ ~statusErr
        calls == IF b.err THEN b.calls
                 ELSE b.calls \o <<Call("StatusUpdate", "-",
                                        IF statusErr THEN "error" ELSE "ok")>>
    IN /\ mcPass' = [op |-> "Update", calls |-> calls, err |-> (b.err \/ statusErr),
                     requeueAfter |-> b.requeueAfter, panic |-> b.panic]
       /\ hr' = b.hr
       /\ profile' = b.profile
       /\ IF ~wrote
          THEN UNCHANGED <<mcConditions, mcObservedGeneration>>
          ELSE /\ mcConditions' = written
               /\ mcObservedGeneration' = Generation
       /\ UNCHANGED <<mcPresent, mcDeleting, mcFinalizer, mcDryRun, tmplProviders, infra,
                      machines, profileDeleteIssued, hrDeleteIssued, hrSeenInDelete>>

\* Update past the finalizer step, with the deferred updateStatus
UpdatePass(in, statusErr) ==
    \E b \in {UpdateBody(in)} :
    LET written == updateStatus(b.conds)
        calls == b.calls \o <<Call("StatusUpdate", "-", IF statusErr THEN "error" ELSE "ok")>>
    IN /\ mcPass' = [op |-> "Update", calls |-> calls, err |-> (b.err \/ statusErr),
                     requeueAfter |-> b.requeueAfter, panic |-> b.panic]
       /\ hr' = b.hr
       /\ profile' = b.profile
       /\ IF statusErr
          THEN UNCHANGED <<mcConditions, mcObservedGeneration>>
          ELSE /\ mcConditions' = written
               /\ mcObservedGeneration' = Generation
       /\ UNCHANGED <<mcPresent, mcDeleting, mcFinalizer, mcDryRun, tmplProviders, infra,
                      machines, profileDeleteIssued, hrDeleteIssued, hrSeenInDelete>>

\* a bug: the finalizer pass goes on to initialise the conditions
UpdateAddFinalizerAndConditions(updErr) ==
    /\ mcPass' = Pass("Update",
                      <<Call("UpdateManagedCluster", "-", IF updErr THEN "error" ELSE "ok")>>,
                      updErr, 0)
    /\ mcFinalizer' = ~updErr
    /\ mcConditions' = InitConditions(mcDryRun)
    /\ UNCHANGED <<mcPresent, mcDeleting, mcDryRun, mcObservedGeneration,
                   tmplProviders, hr, profile, infra, machines, profileDeleteIssued,
                   hrDeleteIssued, hrSeenInDelete>>

\* Update, the finalizer step (lines 842-848): add it, write the object, return
UpdateAddFinalizer(updErr) ==
    /\ mcPass' = Pass("Update",
                      <<Call("UpdateManagedCluster", "-", IF updErr THEN "error" ELSE "ok")>>,
                      updErr, 0)
    /\ mcFinalizer' = ~updErr
    /\ UNCHANGED <<mcPresent, mcDeleting, mcDryRun, mcObservedGeneration, mcConditions,
                   tmplProviders, hr, profile, infra, machines, profileDeleteIssued,
                   hrDeleteIssued, hrSeenInDelete>>

\* Reconcile (lines 770-776): the Management object cannot be read on a first pass
ReconcileNoManagement ==
    /\ mcObservedGeneration = 0
    /\ mcPass' = Pass("Reconcile", <<Call("GetManagement", "-", "error")>>, TRUE, 0)
    /\ UNCHANGED <<mcPresent, mcDeleting, mcFinalizer, mcDryRun, mcObservedGeneration,
                   mcConditions, tmplProviders, hr, profile, infra, machines,
                   profileDeleteIssued, hrDeleteIssued, hrSeenInDelete>>

\* Update
Update ==
    IF ~mcFinalizer
    THEN \E updErr \in BOOLEAN : UpdateAddFinalizer(updErr)
    ELSE \E in \in UpdateInputs, statusErr \in BOOLEAN :
            UpdateMeets(in) /\ UpdatePass(in, statusErr)

\* Reconcile of an object that is not under deletion
ReconcileUpdate ==
    /\ mcPresent /\ ~mcDeleting
    /\ (ReconcileNoManagement \/ Update)
    /\ UNCHANGED <<mgVars, tvVars, svVars, pmVars, cfVars, whVars, pvVars, ruVars>>

(***************************************************************************)
(* The environment of the ManagedCluster loop: the user, the release       *)
(* engine, the infrastructure provider                                     *)
(***************************************************************************)
\* the user deletes the ManagedCluster.  Only deletion passes read the provider
\* list of the template: it is what the template validator has written by then.
RequestDelete ==
    /\ mcPresent /\ ~mcDeleting
    /\ mcDeleting' = TRUE
    /\ mcPresent' = mcFinalizer
    /\ tmplProviders' \in TemplateProviderLists
    /\ mcPass' = IdlePass
    /\ UNCHANGED <<mcFinalizer, mcDryRun, mcObservedGeneration, mcConditions,
                   hr, profile, infra, machines, profileDeleteIssued, hrDeleteIssued,
                   hrSeenInDelete>>
    /\ UNCHANGED <<mgVars, tvVars, svVars, pmVars, cfVars, whVars, pvVars, ruVars>>

\* the release installs the infra object of a provider of the template, with the
\* blocking finalizer, and its machines.  Only deletion passes read these objects,
\* so their creation is followed from the deletion request on.
InfraProvision ==
    /\ hr = "present"
    /\ mcDeleting
    /\ \E i \in DOMAIN tmplProviders, n \in 0..MaxMachines :
        LET p == tmplProviders[i]
        IN /\ p \in providerGVKs
           /\ infra[p] = "absent"
           /\ infra' = [infra EXCEPT ![p] = "blocked"]
           /\ machines' = [machines EXCEPT ![p] = n]
    /\ mcPass' = IdlePass
    /\ UNCHANGED <<mcPresent, mcDeleting, mcFinalizer, mcDryRun, mcObservedGeneration,
                   mcConditions, tmplProviders, hr, profile, profileDeleteIssued,
                   hrDeleteIssued, hrSeenInDelete>>
    /\ UNCHANGED <<mgVars, tvVars, svVars, pmVars, cfVars, whVars, pvVars, ruVars>>

\* a machine of a cluster under deletion goes away
MachineRemoved ==
    /\ hr # "present"
    /\ \E p \in providerGVKs :
        /\ machines[p] > 0
        /\ machines' = [machines EXCEPT ![p] = machines[p] - 1]
    /\ mcPass' = IdlePass
    /\ UNCHANGED <<mcPresent, mcDeleting, mcFinalizer, mcDryRun, mcObservedGeneration,
                   mcConditions, tmplProviders, hr, profile, infra, profileDeleteIssued,
                   hrDeleteIssued, hrSeenInDelete>>
    /\ UNCHANGED <<mgVars, tvVars, svVars, pmVars, cfVars, whVars, pvVars, ruVars>>

\* the provider removes an infra object whose blocking finalizer is gone
InfraRemoved ==
    /\ hr # "present"
    /\ \E p \in providerGVKs :
        /\ infra[p] = "released"
        /\ machines[p] = 0
        /\ infra' = [infra EXCEPT ![p] = "absent"]
    /\ mcPass' = IdlePass
    /\ UNCHANGED <<mcPresent, mcDeleting, mcFinalizer, mcDryRun, mcObservedGeneration,
                   mcConditions, tmplProviders, hr, profile, machines, profileDeleteIssued,
                   hrDeleteIssued, hrSeenInDelete>>
    /\ UNCHANGED <<mgVars, tvVars, svVars, pmVars, cfVars, whVars, pvVars, ruVars>>

\* the release engine finishes the deletion of the primary release
HelmReleaseRemoved ==
    /\ hr = "deleting"
    /\ hr' = "absent"
    /\ mcPass' = IdlePass
    /\ UNCHANGED <<mcPresent, mcDeleting, mcFinalizer, mcDryRun, mcObservedGeneration,
                   mcConditions, tmplProviders, profile, infra, machines,
                   profileDeleteIssued, hrDeleteIssued, hrSeenInDelete>>
    /\ UNCHANGED <<mgVars, tvVars, svVars, pmVars, cfVars, whVars, pvVars, ruVars>>

(***************************************************************************)
(* Specification of the ManagedCluster loop                                *)
(***************************************************************************)
\* TemplateStatusCommon of a Template nothing has written yet
NoTemplateStatus ==
    [valid |-> FALSE, validationError |-> "", chartRef |-> "nil", providers |-> "unset",
     description |-> "unset", config |-> "unset", observedGeneration |-> 0]

\* the chart and every collaborator of the Template pass work
TvNoFault == [fault |-> "none", statusUpdate |-> "ok"]

TvIdlePass == [op |-> "none", found |-> "", calls |-> <<>>, err |-> "", wrote |-> FALSE]

\* a string is the sequence of its characters; "" is <<>>
NoProviderLists == [infra |-> <<>>, bootstrap |-> <<>>, controlPlane |-> <<>>]

\* the status of a Template whose chart metadata was never parsed
NoParsedStatus ==
    [type |-> "", providers |-> NoProviderLists, valid |-> FALSE, validationError |-> "",
     observedGeneration |-> 0]

\* an object as the API server holds it; resourceVersion 0: no object
CfObj(rv, fin, def, spec, seen) ==
    [resourceVersion |-> rv, finalizer |-> fin, defaulted |-> def, spec |-> spec,
     observed |-> seen]

\* no pass runs: there is no fetched copy
NoCopy == CfObj(0, FALSE, FALSE, "-", "-")

CfIdlePass == [calls |-> <<>>, err |-> FALSE]

\* no object's writes are followed
CfIdleInit ==
    /\ cfKind = "none"
    /\ cfObject = NoCopy
    /\ cfCopy = NoCopy
    /\ cfPc = "idle"
    /\ cfPass = CfIdlePass

WhIdleResult == [op |-> "none", warnings |-> <<>>, err |-> ""]

\* no deletion of a template is requested
WhIdleInit ==
    /\ whTemplate = [kind |-> "none", namespace |-> "-", name |-> "-"]
    /\ whClusters = {}
    /\ whResult = WhIdleResult

\* a chart by namespace and name; a nil reference has neither
ChartKey(ns, name) == [namespace |-> ns, name |-> name]
NoChartRef == ChartKey("", "")
RuIdleLookup == [op |-> "none", chart |-> NoChartRef, err |-> ""]

\* no ServiceTemplate is resolved
RuIdleInit ==
    /\ ruTemplate = [name |-> "none", namespace |-> "", managed |-> FALSE,
                     chartName |-> "", chartRef |-> NoChartRef]
    /\ ruStatus = [chartRef |-> NoChartRef, valid |-> FALSE]
    /\ ruCharts = {}
    /\ ruRepos = {}
    /\ ruLookup = RuIdleLookup

PvIdleCall == [op |-> "none", before |-> {}, ok |-> {}, ran |-> <<>>, err |-> ""]

\* no ProviderValidator has been made
PvIdleInit ==
    /\ pvValidator = [template |-> "none", action |-> "none",
                      resourcesToValidate |-> {}, resourceOrder |-> <<>>]
    /\ pvCall = PvIdleCall

\* no chart metadata is parsed
PmIdleInit ==
    /\ pmTemplate = [kind |-> "none", type |-> "", providers |-> NoProviderLists,
                     status |-> NoParsedStatus]
    /\ pmChart = [metadata |-> FALSE, type |-> "", providers |-> NoProviderLists]
    /\ pmEnv = TvNoFault
    /\ pmPass = TvIdlePass

\* no Template is followed
TvIdleInit ==
    /\ tvSpec = "none"
    /\ tvStatus = NoTemplateStatus
    /\ tvEnv = TvNoFault
    /\ tvHealed = FALSE
    /\ tvQueued = FALSE
    /\ tvPass = TvIdlePass

\* no ClusterProfile exists
NoProfile == [present |-> FALSE, charts |-> <<>>]

\* no add-on pass is followed
SvIdleInit ==
    /\ svcServices = <<>>
    /\ svcTemplates = "none"
    /\ svcProfile = NoProfile
    /\ svcPass = IdlePass

MgIdleInit ==
    /\ mgmt = "none"
    /\ mgTemplates = "none"
    /\ mgHmcRelease = "absent"
    /\ mgPass = "none"

Init ==
    /\ mcPresent = TRUE
    /\ mcDeleting = FALSE
    /\ mcFinalizer = FALSE
    /\ mcDryRun \in BOOLEAN
    /\ mcObservedGeneration = 0
    /\ mcConditions = NoConditions
    /\ tmplProviders = <<>>
    /\ hr = "absent"
    /\ profile = "absent"
    /\ infra = [p \in providerGVKs |-> "absent"]
    /\ machines = [p \in providerGVKs |-> 0]
    /\ profileDeleteIssued = FALSE
    /\ hrDeleteIssued = FALSE
    /\ hrSeenInDelete = FALSE
    /\ mcPass = IdlePass
    /\ MgIdleInit
    /\ TvIdleInit
    /\ SvIdleInit
    /\ PmIdleInit
    /\ CfIdleInit
    /\ WhIdleInit
    /\ PvIdleInit
    /\ RuIdleInit

Next ==
    \/ ReconcileUpdate
    \/ ReconcileDelete
    \/ RequestDelete
    \/ InfraProvision
    \/ MachineRemoved
    \/ InfraRemoved
    \/ HelmReleaseRemoved

Spec == Init /\ [][Next]_vars

(***************************************************************************)
(* Management: types (api/v1alpha1/management_types.go)                    *)
(***************************************************************************)
DefaultCoreHMCTemplate == "hmc"
DefaultCoreCAPITemplate == "cluster-api"
ProviderSveltosName == "projectsveltos"
NoCore == [set |-> FALSE, hmc |-> "-", hmcConfig |-> "-", capi |-> "-"]
Core(h, cfg, c) == [set |-> TRUE, hmc |-> h, hmcConfig |-> cfg, capi |-> c]

\* DefaultCoreConfiguration: both components by template name, no config
DefaultCoreConfiguration == Core(DefaultCoreHMCTemplate, "nil", DefaultCoreCAPITemplate)

\* a bug: the defaults are reported as applied and Core is left as it is
SetDefaultsKeepsCore(core) == [changed |-> ~core.set, core |-> core]

\* ManagementSpec.SetDefaults: [changed, core]
SetDefaults(core) ==
    IF core.set THEN [changed |-> FALSE, core |-> core]
    ELSE [changed |-> TRUE, core |-> DefaultCoreConfiguration]

\* the raw config of the core HMC component, by what enableAdditionalComponents
\* does with it: absent, not JSON, a sub-configuration that is not an object, any
\* other object
HmcConfigs == {"nil", "badjson", "nonmap", "plain"}

\* the templates of the system namespace the components name
TemplateNames == {DefaultCoreHMCTemplate, DefaultCoreCAPITemplate, "p1", ProviderSveltosName}
TemplateStates == {"missing", "invalid", "valid"}

\* status.providers of a template
NoProviders == [infra |-> <<>>, bootstrap |-> <<>>, controlPlane |-> <<>>]
TemplateStatusProviders(name) ==
    CASE name = "p1" -> [infra |-> <<"aws">>, bootstrap |-> <<"k0s">>,
                         controlPlane |-> <<"k0s">>]
      [] name = DefaultCoreCAPITemplate ->
                        [infra |-> <<>>, bootstrap |-> <<"kubeadm">>, controlPlane |-> <<>>]
      [] OTHER -> NoProviders

\* an error string; NoErr is the empty string
Err(kind, name) == [kind |-> kind, template |-> name]
NoErr == Err("", "")
NoEntry == [set |-> FALSE, success |-> FALSE, error |-> NoErr]
NoStatus == [observedGeneration |-> 0, availableProviders |-> NoProviders,
             components |-> [n \in TemplateNames |-> NoEntry]]

(***************************************************************************)
(* Management: the component installer pass                                *)
(* (internal/controller/management_controller.go)                          *)
(***************************************************************************)
Component(t, dep, ns, create) ==
    [template |-> t, dependsOn |-> dep, targetNamespace |-> ns, createNamespace |-> create]

\* wrappedComponents: the providers part
RECURSIVE wrappedProviders(_, _, _)
wrappedProviders(providers, i, capi) ==
    IF i > Len(providers) THEN <<>>
    ELSE <<IF providers[i] = ProviderSveltosName
           THEN Component(providers[i], <<capi>>, "projectsveltos", TRUE)
           ELSE Component(providers[i], <<capi>>, "", FALSE)>>
         \o wrappedProviders(providers, i + 1, capi)

\* a bug: the CAPI component comes first and the HMC component depends on it
wrappedComponentsCapiFirst(m) ==
    IF ~m.core.set THEN <<>>
    ELSE <<Component(m.core.capi, <<>>, "", FALSE),
           Component(m.core.hmc, <<m.core.capi>>, "", FALSE)>>
         \o wrappedProviders(m.providers, 1, m.core.capi)

\* wrappedComponents
wrappedComponents(m) ==
    IF ~m.core.set THEN <<>>
    ELSE <<Component(m.core.hmc, <<>>, "", FALSE),
           Component(m.core.capi, <<m.core.hmc>>, "", FALSE)>>
         \o wrappedProviders(m.providers, 1, m.core.capi)

\* the error strings of a pass, by format and template name
\* "Failed to get Template <ns>/<name>: <err>"
ErrGet(name) == Err("Failed to get Template", name)
\* "Template <ns>/<name> is not marked as valid"
ErrNotValid(name) == Err("Template is not marked as valid", name)
\* "error reconciling HelmRelease <ns>/<name>: <err>"
ErrRelease(name) == Err("error reconciling HelmRelease", name)
ErrStatus == Err("failed to update status for Management", "-")

\* a bug: the providers of a failed component are added as well
updateComponentsStatusAddsAlways(components, providers, name, tprov, err) ==
    [components |-> [components EXCEPT
                        ![name] = [set |-> TRUE, success |-> err = NoErr, error |-> err]],
     providers |-> [infra |-> providers.infra \o tprov.infra,
                    bootstrap |-> providers.bootstrap \o tprov.bootstrap,
                    controlPlane |-> providers.controlPlane \o tprov.controlPlane]]

\* updateComponentsStatus: [components, providers]
updateComponentsStatus(components, providers, name, tprov, err) ==
    [components |-> [components EXCEPT
                        ![name] = [set |-> TRUE, success |-> err = NoErr, error |-> err]],
     providers |-> IF err = NoErr
                   THEN [infra |-> providers.infra \o tprov.infra,
                         bootstrap |-> providers.bootstrap \o tprov.bootstrap,
                         controlPlane |-> providers.controlPlane \o tprov.controlPlane]
                   ELSE providers]

\* Update, one component of the loop (lines 102-137): its error, NoErr when it succeeded
ComponentError(c, outcome) ==
    IF mgTemplates[c.template] = "missing" \/ outcome = "getError" THEN ErrGet(c.template)
    ELSE IF mgTemplates[c.template] # "valid" THEN ErrNotValid(c.template)
    ELSE IF outcome = "releaseError" THEN ErrRelease(c.template)
    ELSE NoErr

\* the calls one component of the loop makes
ComponentCalls(c, outcome) ==
    IF mgTemplates[c.template] = "missing" \/ outcome = "getError"
    THEN <<Call("GetTemplate", c.template, "error")>>
    ELSE IF mgTemplates[c.template] # "valid"
    THEN <<Call("GetTemplate", c.template, "invalid")>>
    ELSE <<Call("GetTemplate", c.template, "valid"),
           Call("ReconcileHelmRelease", c.template,
                IF outcome = "releaseError" THEN "error" ELSE "ok")>>

\* a bug: only the latest error is kept
JoinKeepsLatest(errs, e) == <<e>>

\* errors.Join(errs, e): the errors of a pass, in the order they were met
JoinErrors(errs, e) == Append(errs, e)

\* a bug: the loop ends at the first component that fails
LoopEndsAtError(err) == FALSE

\* Update: a failed component does not end the loop (continue)
LoopContinues(err) == TRUE

\* Update, the loop over the components from index i:
\* [components, providers, errs, calls]
RECURSIVE componentsLoop(_, _, _, _)
componentsLoop(comps, i, outcomes, acc) ==
    IF i > Len(comps) THEN acc
    ELSE LET c == comps[i]
             e == ComponentError(c, outcomes[i])
             tprov == IF mgTemplates[c.template] = "valid" /\ outcomes[i] # "getError"
                      THEN TemplateStatusProviders(c.template) ELSE NoProviders
             st == updateComponentsStatus(acc.components, acc.providers, c.template,
                                          tprov, e)
             next == [components |-> st.components, providers |-> st.providers,
                      errs |-> IF e = NoErr THEN acc.errs ELSE JoinErrors(acc.errs, e),
                      calls |-> acc.calls \o ComponentCalls(c, outcomes[i])]
         IN IF e = NoErr \/ LoopContinues(e)
            THEN componentsLoop(comps, i + 1, outcomes, next)
            ELSE next

ErrUpdate == Err("failed to update Management", "-")
ErrUnmarshal == Err("failed to unmarshal HMC config", "-")
ErrCertManager == Err("failed to check in the cert-manager API is installed", "-")
ErrApi(call) == Err("api", call)

\* the record of a Management pass; n counts the passes since the environment last
\* changed something, up to MaxPasses
MgPass(op, calls, errs) ==
    [op |-> op, calls |-> calls, errs |-> errs, panic |-> FALSE,
     n |-> IF mgPass.n < MaxPasses THEN mgPass.n + 1 ELSE MaxPasses]
MgIdlePass == [op |-> "none", calls |-> <<>>, errs |-> <<>>, panic |-> FALSE, n |-> 0]

\* a bug: the providers of a pass are appended to those of the status read
DetectedProvidersFromStatus == mgmt.status.availableProviders

\* Update: detectedProviders := hmc.Providers{}
DetectedProviders == NoProviders

\* enableAdditionalComponents: "panic" (a type assertion on a sub-configuration that
\* is no object), an error, or "ok"
enableAdditionalComponents(cfg, certErr) ==
    IF cfg = "badjson" THEN "unmarshal"
    ELSE IF cfg = "nonmap" THEN "panic"
    ELSE IF certErr THEN "certmanager"
    ELSE "ok"

\* Update, the finalizer step (lines 76-82)
MgAddFinalizer(updErr) ==
    /\ mgPass' = MgPass("Update",
                        <<Call("UpdateManagement", "-", IF updErr THEN "error" ELSE "ok")>>,
                        IF updErr THEN <<ErrUpdate>> ELSE <<>>)
    /\ mgmt' = [mgmt EXCEPT !.finalizer = ~updErr]
    /\ UNCHANGED <<mgTemplates, mgHmcRelease>>

\* Update, the defaults step (lines 86-89): the defaulted object is written
MgApplyDefaults(updErr) ==
    /\ mgPass' = MgPass("Update",
                        <<Call("SetDefaults", "-", "changed"),
                          Call("UpdateManagement", "-", IF updErr THEN "error" ELSE "ok")>>,
                        IF updErr THEN <<ErrApi("Update")>> ELSE <<>>)
    /\ mgmt' = IF updErr THEN mgmt ELSE [mgmt EXCEPT !.core = SetDefaults(mgmt.core).core]
    /\ UNCHANGED <<mgTemplates, mgHmcRelease>>

\* a bug: the error of enableAdditionalComponents is dropped
MgPreconditionFailsSilently(why) ==
    /\ mgPass' = [MgPass("Update", <<Call("enableAdditionalComponents", "-", why)>>, <<>>)
                  EXCEPT !.panic = (why = "panic")]
    /\ UNCHANGED <<mgmt, mgTemplates, mgHmcRelease>>

\* Update, enableAdditionalComponents fails (lines 95-99)
MgPreconditionFails(why) ==
    /\ mgPass' = [MgPass("Update", <<Call("enableAdditionalComponents", "-", why)>>,
                         CASE why = "unmarshal" -> <<ErrUnmarshal>>
                           [] why = "certmanager" -> <<ErrCertManager>>
                           [] OTHER -> <<>>)
                  EXCEPT !.panic = (why = "panic")]
    /\ UNCHANGED <<mgmt, mgTemplates, mgHmcRelease>>

\* Update, the components and the status (lines 101-150)
MgInstall(outcomes, statusErr) ==
    \E r \in {componentsLoop(wrappedComponents(mgmt), 1, outcomes,
                    [components |-> [n \in TemplateNames |-> NoEntry],
                     providers |-> DetectedProviders, errs |-> <<>>,
                     calls |-> <<Call("enableAdditionalComponents", "-", "ok")>>])} :
    LET errs == IF statusErr THEN JoinErrors(r.errs, ErrStatus) ELSE r.errs
    IN /\ mgPass' = MgPass("Update",
                           r.calls \o <<Call("StatusUpdate", "-",
                                             IF statusErr THEN "error" ELSE "ok")>>,
                           errs)
       /\ mgmt' = IF statusErr THEN mgmt
                  ELSE [mgmt EXCEPT !.status =
                            [observedGeneration |-> Generation,
                             availableProviders |-> r.providers,
                             components |-> r.components]]
       \* the release of the core HMC component is created by its reconcile
       /\ mgHmcRelease' =
            IF mgHmcRelease = "absent"
               /\ \E i \in DOMAIN r.calls :
                    r.calls[i] = Call("ReconcileHelmRelease", mgmt.core.hmc, "ok")
            THEN "active" ELSE mgHmcRelease
       /\ UNCHANGED mgTemplates

\* what can happen to one component: its template cannot be read, its release
\* cannot be reconciled, neither
ComponentOutcomes == {"ok", "getError", "releaseError"}

\* the outcomes a pass can meet: a release is reconciled only for a valid template
\* that could be read, a missing template has no other way to fail; at most
\* MaxFaults calls of a pass fail for a reason outside the templates
OutcomesMeet(comps, outcomes, statusErr) ==
    /\ \A i \in DOMAIN comps :
        /\ outcomes[i] = "releaseError" => mgTemplates[comps[i].template] = "valid"
        /\ outcomes[i] = "getError" => mgTemplates[comps[i].template] # "missing"
    /\ Cardinality({i \in DOMAIN comps : outcomes[i] # "ok"})
            + (IF statusErr THEN 1 ELSE 0) <= MaxFaults

\* ManagementReconciler.Update
MgUpdate ==
    IF ~mgmt.finalizer
    THEN \E updErr \in BOOLEAN : MgAddFinalizer(updErr)
    ELSE IF SetDefaults(mgmt.core).changed
    THEN \E updErr \in BOOLEAN : MgApplyDefaults(updErr)
    ELSE \E certErr \in BOOLEAN :
            LET pre == enableAdditionalComponents(mgmt.core.hmcConfig, certErr)
            IN IF pre # "ok"
               THEN MgPreconditionFails(pre)
               ELSE /\ ~certErr
                    /\ \E comps \in {wrappedComponents(mgmt)} :
                         \E outcomes \in [DOMAIN comps -> ComponentOutcomes],
                            statusErr \in BOOLEAN :
                            /\ OutcomesMeet(comps, outcomes, statusErr)
                            /\ MgInstall(outcomes, statusErr)

\* Reconcile of a Management object that is not under deletion
MgReconcileUpdate ==
    /\ mgmt.present /\ ~mgmt.deleting
    /\ MgUpdate
    /\ UNCHANGED <<mcVars, tvVars, svVars, pmVars, cfVars, whVars, pvVars, ruVars>>

(***************************************************************************)
(* Management: deletion (lines 153-219)                                    *)
(***************************************************************************)
MgDeleteFailPoints ==
    {NoFail, Fail("GetHelmRelease", "-"), Fail("UpdateHelmRelease", "-"),
     Fail("EnsureDeleteAllOf", "HelmRelease"), Fail("EnsureDeleteAllOf", "HelmChart"),
     Fail("EnsureDeleteAllOf", "HelmRepository"), Fail("UpdateManagement", "-")}

\* Delete reads management.Spec.Core.HMC: a nil Core is dereferenced
MgDeleteDereferencesNil(core) == ~core.set

\* removeHelmReleases, the suspend step: [calls, err, release]
suspendHmcRelease(fail) ==
    IF fail = Fail("GetHelmRelease", "-")
    THEN [calls |-> <<Call("GetHelmRelease", "-", "error")>>, err |-> TRUE,
          release |-> mgHmcRelease]
    ELSE IF mgHmcRelease # "active"
    THEN [calls |-> <<Call("GetHelmRelease", "-", mgHmcRelease)>>, err |-> FALSE,
          release |-> mgHmcRelease]
    ELSE IF fail = Fail("UpdateHelmRelease", "-")
    THEN [calls |-> <<Call("GetHelmRelease", "-", "active"),
                      Call("UpdateHelmRelease", "-", "error")>>,
          err |-> TRUE, release |-> mgHmcRelease]
    ELSE [calls |-> <<Call("GetHelmRelease", "-", "active"),
                      Call("UpdateHelmRelease", "-", "ok")>>,
          err |-> FALSE, release |-> "suspended"]

\* a bug: the charts are deleted before the releases that use them
DeleteKindsChartsFirst == <<"HelmChart", "HelmRelease", "HelmRepository">>

\* the three EnsureDeleteAllOf calls from the k-th kind on: [calls, err]
DeleteKinds == <<"HelmRelease", "HelmChart", "HelmRepository">>
RECURSIVE ensureDeleteAll(_, _)
ensureDeleteAll(k, fail) ==
    IF k > Len(DeleteKinds) THEN [calls |-> <<>>, err |-> FALSE]
    ELSE IF fail = Fail("EnsureDeleteAllOf", DeleteKinds[k])
    THEN [calls |-> <<Call("EnsureDeleteAllOf", DeleteKinds[k], "error")>>, err |-> TRUE]
    ELSE LET r == ensureDeleteAll(k + 1, fail)
         IN [calls |-> <<Call("EnsureDeleteAllOf", DeleteKinds[k], "ok")>> \o r.calls,
             err |-> r.err]

\* ManagementReconciler.Delete
MgDelete(fail) ==
    IF MgDeleteDereferencesNil(mgmt.core)
    THEN /\ mgPass' = [MgPass("Delete", <<>>, <<>>) EXCEPT !.panic = TRUE]
         /\ UNCHANGED <<mgmt, mgHmcRelease>>
    ELSE LET s == suspendHmcRelease(fail)
         IN IF s.err
            THEN /\ mgPass' = MgPass("Delete", s.calls, <<ErrApi(fail.call)>>)
                 /\ mgHmcRelease' = s.release
                 /\ UNCHANGED mgmt
            ELSE LET d == ensureDeleteAll(1, fail)
                     released == IF CallOut(d, "EnsureDeleteAllOf", "HelmRelease", "ok")
                                 THEN "absent" ELSE s.release
                 IN IF d.err
                    THEN /\ mgPass' = MgPass("Delete", s.calls \o d.calls,
                                             <<ErrApi(fail.call)>>)
                         /\ mgHmcRelease' = released
                         /\ UNCHANGED mgmt
                    ELSE IF ~mgmt.finalizer
                    THEN /\ mgPass' = MgPass("Delete", s.calls \o d.calls, <<>>)
                         /\ mgHmcRelease' = released
                         /\ UNCHANGED mgmt
                    ELSE IF fail = Fail("UpdateManagement", "-")
                    THEN /\ mgPass' = MgPass("Delete", s.calls \o d.calls
                                                \o <<Call("UpdateManagement", "-", "error")>>,
                                             <<ErrApi(fail.call)>>)
                         /\ mgHmcRelease' = released
                         /\ UNCHANGED mgmt
                    ELSE /\ mgPass' = MgPass("Delete", s.calls \o d.calls
                                                \o <<Call("UpdateManagement", "-", "ok")>>,
                                             <<>>)
                         /\ mgHmcRelease' = released
                         /\ mgmt' = [mgmt EXCEPT !.finalizer = FALSE, !.present = FALSE]

\* Reconcile of a Management object under deletion
MgReconcileDelete ==
    /\ mgmt.present /\ mgmt.deleting
    /\ \E fail \in MgDeleteFailPoints :
        /\ MgDelete(fail)
        /\ DeleteMeets(fail, mgPass')
    /\ UNCHANGED mgTemplates
    /\ UNCHANGED <<mcVars, tvVars, svVars, pmVars, cfVars, whVars, pvVars, ruVars>>

(***************************************************************************)
(* The environment of the Management loop                                  *)
(***************************************************************************)
\* the user deletes the Management object
MgRequestDelete ==
    /\ mgmt.present /\ ~mgmt.deleting
    /\ mgmt' = [mgmt EXCEPT !.deleting = TRUE, !.present = mgmt.finalizer]
    /\ mgPass' = MgIdlePass
    /\ UNCHANGED <<mgTemplates, mgHmcRelease>>
    /\ UNCHANGED <<mcVars, tvVars, svVars, pmVars, cfVars, whVars, pvVars, ruVars>>

(***************************************************************************)
(* Specification of the Management loop                                    *)
(***************************************************************************)
\* spec.providers: none, one provider, the add-on provider before another
\* provider, the same template twice
MgProviderLists == {<<>>, <<"p1">>, <<ProviderSveltosName, "p1">>, <<"p1", "p1">>}

McIdleInit ==
    /\ mcPresent = FALSE
    /\ mcDeleting = FALSE
    /\ mcFinalizer = FALSE
    /\ mcDryRun = FALSE
    /\ mcObservedGeneration = 0
    /\ mcConditions = NoConditions
    /\ tmplProviders = <<>>
    /\ hr = "absent"
    /\ profile = "absent"
    /\ infra = [p \in providerGVKs |-> "absent"]
    /\ machines = [p \in providerGVKs |-> 0]
    /\ profileDeleteIssued = FALSE
    /\ hrDeleteIssued = FALSE
    /\ hrSeenInDelete = FALSE
    /\ mcPass = IdlePass

InitMgmt ==
    /\ mgmt \in [present : {TRUE}, deleting : {FALSE}, finalizer : {FALSE},
                 core : {NoCore} \cup {Core(DefaultCoreHMCTemplate, cfg,
                                            DefaultCoreCAPITemplate) : cfg \in HmcConfigs},
                 providers : MgProviderLists, status : {NoStatus}]
    /\ mgTemplates \in {t \in [TemplateNames -> TemplateStates] :
                            Cardinality({n \in TemplateNames : t[n] # "valid"})
                                <= MaxBadTemplates}
    /\ mgHmcRelease = "absent"
    /\ mgPass = MgIdlePass
    /\ McIdleInit
    /\ TvIdleInit
    /\ SvIdleInit
    /\ PmIdleInit
    /\ CfIdleInit
    /\ WhIdleInit
    /\ PvIdleInit
    /\ RuIdleInit

NextMgmt ==
    \/ MgReconcileUpdate
    \/ MgReconcileDelete
    \/ MgRequestDelete

SpecMgmt == InitMgmt /\ [][NextMgmt]_vars

(***************************************************************************)
(* Template validator (internal/controller/template_controller.go).        *)
(* ArtifactReady, the chart download and chart.Validate are collaborators: *)
(* which of them fails in the next pass, and whether the status write      *)
(* fails, is the environment tvEnv.  An error is its message; "" is nil.   *)
(***************************************************************************)
TemplateHelmSpecs ==
    {"chartRef", "chartRefOtherKind", "chartName", "chartNameManaged", "none"}

TvFaults ==
    {"none", "getTemplate", "getChart", "repository", "notReady", "chartError",
     "download", "metadata", "validate", "marshal"}

TvEnvs == [fault : TvFaults, statusUpdate : {"ok", "error"}]

\* the message of the error each failure produces
TvMessage(fault) ==
    CASE fault = "getTemplate" -> "get template failed"
      [] fault = "getChart" -> "get chart failed"
      [] fault = "repository" -> "reconcile repository failed"
      [] fault = "notReady" -> "chart not reconciled yet"
      [] fault = "chartError" -> "chart-level error"
      [] fault = "download" -> "failed to download chart"
      [] fault = "metadata" -> "chart metadata is empty"
      [] fault = "validate" -> "chart validation failed"
      [] fault = "marshal" -> "failed to parse Helm chart values"
      [] OTHER -> ""

\* found: the validationError of the Template as the pass fetched it
TvPass(status, calls, err, wrote) ==
    [op |-> "Reconcile", found |-> status.validationError, calls |-> calls, err |-> err,
     wrote |-> wrote]

\* a bug: the status is valid whatever the validation error
TvUpdateStatusAlwaysValid(status, validationError) ==
    [status EXCEPT !.observedGeneration = Generation,
                   !.validationError = validationError,
                   !.valid = TRUE]

\* TemplateReconciler.updateStatus: the status sent to the API server
TvUpdateStatus(status, validationError) ==
    [status EXCEPT !.observedGeneration = Generation,
                   !.validationError = validationError,
                   !.valid = (validationError = "")]

\* a bug: the status is written with a fixed text, not with the error
TvReportFixedText(status, calls, env, msg) ==
    [status |-> TvUpdateStatus(status, "invalid chart"),
     pass |-> TvPass(status, Append(calls, Call("StatusUpdate", "invalid chart", env.statusUpdate)),
                     msg, env.statusUpdate = "ok")]

\* a failing step of the validation: the status is written with the error,
\* the result of the write is dropped, the pass returns the error
TvReport(status, calls, env, msg) ==
    [status |-> TvUpdateStatus(status, msg),
     pass |-> TvPass(status, Append(calls, Call("StatusUpdate", msg, env.statusUpdate)),
                     msg, env.statusUpdate = "ok")]

\* a bug: a step that returns its error writes it to the status first
TvReturnWritesStatus(status, calls, msg) ==
    [status |-> TvUpdateStatus(status, msg), pass |-> TvPass(status, calls, msg, TRUE)]

\* a step that returns its error without writing anything
TvReturn(status, calls, msg) ==
    [status |-> status, pass |-> TvPass(status, calls, msg, FALSE)]

\* helm.ArtifactReady(hcChart): (reportStatus, err)
ArtifactReady(env) ==
    CASE env.fault = "notReady" -> [reportStatus |-> FALSE, err |-> TvMessage("notReady")]
      [] env.fault = "chartError" -> [reportStatus |-> TRUE, err |-> TvMessage("chartError")]
      [] OTHER -> [reportStatus |-> FALSE, err |-> ""]

\* lines 179-216: download, parse, validate, serialise the values, write
TvValidateChart(status, calls, env) ==
    IF env.fault = "download"
    THEN TvReport(status, Append(calls, Call("downloadHelmChart", "-", "error")),
                  env, TvMessage("download"))
    ELSE IF env.fault = "metadata"
    THEN TvReport(status, calls \o <<Call("downloadHelmChart", "-", "ok"),
                                     Call("parseChartMetadata", "-", "error")>>,
                  env, TvMessage("metadata"))
    ELSE IF env.fault = "validate"
    THEN TvReport([status EXCEPT !.providers = "set"],
                  calls \o <<Call("downloadHelmChart", "-", "ok"),
                             Call("parseChartMetadata", "-", "ok"),
                             Call("Validate", "-", "error")>>,
                  env, TvMessage("validate"))
    ELSE IF env.fault = "marshal"
    THEN TvReport([status EXCEPT !.providers = "set", !.description = "set"],
                  calls \o <<Call("downloadHelmChart", "-", "ok"),
                             Call("parseChartMetadata", "-", "ok"),
                             Call("Validate", "-", "ok"),
                             Call("Marshal", "-", "error")>>,
                  env, TvMessage("marshal"))
    ELSE [status |-> TvUpdateStatus([status EXCEPT !.providers = "set",
                                                 !.description = "set",
                                                 !.config = "set"], ""),
          pass |-> TvPass(status,
                          calls \o <<Call("downloadHelmChart", "-", "ok"),
                                     Call("parseChartMetadata", "-", "ok"),
                                     Call("Validate", "-", "ok"),
                                     Call("Marshal", "-", "ok"),
                                     Call("StatusUpdate", "", env.statusUpdate)>>,
                          IF env.statusUpdate = "ok" THEN ""
                          ELSE "failed to update status for template",
                          env.statusUpdate = "ok")]

\* lines 166-177: the chart reference is set in the status, then the
\* artifact must be ready
TvWithChart(status, calls, env) ==
    \* the reference is only set in memory here: it reaches the API server with the next write
    LET st == [status EXCEPT !.chartRef = "HelmChart"]
        ready == ArtifactReady(env)
    IN IF ready.err # ""
       THEN IF ready.reportStatus
            THEN TvReport(st, Append(calls, Call("ArtifactReady", "-", "error")),
                          env, ready.err)
            ELSE TvReturn(st, Append(calls, Call("ArtifactReady", "-", "notReady")),
                          ready.err)
       ELSE TvValidateChart(st, Append(calls, Call("ArtifactReady", "-", "ok")), env)

\* getHelmChartFromChartRef
getHelmChartFromChartRef(spec, env) ==
    IF spec = "chartRefOtherKind" THEN "invalid chartRef.Kind"
    ELSE IF env.fault = "getChart" THEN TvMessage("getChart")
    ELSE ""

\* ReconcileTemplate, lines 123-217
ReconcileTemplate(spec, status, calls, env) ==
    IF spec \in {"chartRef", "chartRefOtherKind"}
    THEN LET err == getHelmChartFromChartRef(spec, env)
         IN IF err # ""
            THEN TvReturn(status,
                          IF spec = "chartRefOtherKind" THEN calls
                          ELSE Append(calls, Call("GetHelmChart", "-", "error")), err)
            ELSE TvWithChart(status, Append(calls, Call("GetHelmChart", "-", "ok")), env)
    ELSE IF spec = "none"
    THEN TvReturn(status, calls, "neither chartName nor chartRef is set")
    ELSE IF spec = "chartName" /\ env.fault = "repository"
    THEN TvReturn(status, Append(calls, Call("ReconcileHelmRepository", "-", "error")),
                  TvMessage("repository"))
    ELSE LET repo == IF spec = "chartName"
                     THEN Append(calls, Call("ReconcileHelmRepository", "-", "ok"))
                     ELSE calls
         IN IF env.fault = "getChart"
            THEN TvReturn(status, Append(repo, Call("reconcileHelmChart", "-", "error")),
                          TvMessage("getChart"))
            ELSE TvWithChart(status, Append(repo, Call("reconcileHelmChart", "-", "ok")), env)

\* Reconcile of ClusterTemplate, ServiceTemplate and ProviderTemplate
TvReconcilePass(spec, status, env) ==
    IF env.fault = "getTemplate"
    THEN TvReturn(status, <<Call("Get", "-", "error")>>, TvMessage("getTemplate"))
    ELSE ReconcileTemplate(spec, status, <<Call("Get", "-", "ok")>>, env)

\* a bug: a pass that returned an error is not retried
TvReconcileNoRetry ==
    /\ tvQueued
    /\ \E r \in {TvReconcilePass(tvSpec, tvStatus, tvEnv)} :
          /\ tvStatus' = IF r.pass.wrote THEN r.status ELSE tvStatus
          /\ tvPass' = r.pass
          /\ tvQueued' = FALSE
    /\ UNCHANGED <<tvSpec, tvEnv, tvHealed, mcVars, mgVars, svVars, pmVars, cfVars, whVars, pvVars, ruVars>>

\* one pass; the work queue retries a pass that returned an error
TvReconcile ==
    /\ tvQueued
    /\ \E r \in {TvReconcilePass(tvSpec, tvStatus, tvEnv)} :
          /\ tvStatus' = IF r.pass.wrote THEN r.status ELSE tvStatus
          /\ tvPass' = r.pass
          /\ tvQueued' = (r.pass.err # "")
    /\ UNCHANGED <<tvSpec, tvEnv, tvHealed, mcVars, mgVars, svVars, pmVars, cfVars, whVars, pvVars, ruVars>>

\* the chart, its artifact, the download or the API server change behaviour
TvEnvChange ==
    /\ ~tvHealed
    /\ tvEnv' \in TvEnvs \ {tvEnv}
    /\ UNCHANGED <<tvSpec, tvStatus, tvHealed, tvQueued, tvPass, mcVars, mgVars, svVars, pmVars, cfVars, whVars, pvVars, ruVars>>

\* from here on nothing fails
TvHeal ==
    /\ ~tvHealed
    /\ tvHealed' = TRUE
    /\ tvEnv' = TvNoFault
    /\ UNCHANGED <<tvSpec, tvStatus, tvQueued, tvPass, mcVars, mgVars, svVars, pmVars, cfVars, whVars, pvVars, ruVars>>

\* an event on the Template or the periodic resync queues a request
TvTrigger ==
    /\ ~tvQueued
    /\ tvQueued' = TRUE
    /\ UNCHANGED <<tvSpec, tvStatus, tvEnv, tvHealed, tvPass, mcVars, mgVars, svVars, pmVars, cfVars, whVars, pvVars, ruVars>>

InitTmpl ==
    /\ tvSpec \in TemplateHelmSpecs
    /\ tvStatus = NoTemplateStatus
    /\ tvEnv \in TvEnvs
    /\ tvHealed = FALSE
    /\ tvQueued = TRUE
    /\ tvPass = TvIdlePass
    /\ McIdleInit
    /\ MgIdleInit
    /\ SvIdleInit
    /\ PmIdleInit
    /\ CfIdleInit
    /\ WhIdleInit
    /\ PvIdleInit
    /\ RuIdleInit

NextTmpl ==
    \/ TvReconcile
    \/ TvEnvChange
    \/ TvHeal
    \/ TvTrigger

SpecTmpl == InitTmpl /\ [][NextTmpl]_vars

\* the work queue runs a queued request
SpecTmplFair == SpecTmpl /\ WF_vars(TvReconcile)

(***************************************************************************)
(* ManagedCluster: the add-on services (updateServices, lines 995-1064,    *)
(* getServiceTemplateRepoURL, lines 1068-1094), service by service.  The   *)
(* pass is followed from the point where Update reaches updateServices.    *)
(***************************************************************************)
MaxServices == 2

ServiceTemplateNames == {"ingress", "kyverno"}

\* ServiceSpec: template, install, releaseName, releaseNamespace
Service(t, i, n, ns) ==
    [template |-> t, install |-> i, releaseName |-> n, releaseNamespace |-> ns]

ServicePool ==
    {Service("ingress", TRUE, "ingress", ""), Service("ingress", FALSE, "ingress", "web"),
     Service("kyverno", TRUE, "kyverno", "policies"), Service("kyverno", FALSE, "kyverno", "")}

ServiceLists == UNION {[1..n -> ServicePool] : n \in 0..MaxServices}

\* what resolving a ServiceTemplate meets: the template cannot be read, its
\* status has no chartRef, its chart or its repository cannot be read, or nothing
ServiceTemplateStates == {"ok", "notfound", "noChartRef", "noChart", "noRepository"}

ServiceTemplateMaps ==
    {m \in [ServiceTemplateNames -> ServiceTemplateStates] :
        Cardinality({t \in ServiceTemplateNames : m[t] # "ok"}) <= MaxBadTemplates}

\* a bug: the release namespace is taken as given, empty or not
HelmChartOptsNamespaceAsGiven(svc) ==
    [template |-> svc.template,
     releaseName |-> svc.releaseName,
     releaseNamespace |-> svc.releaseNamespace]

\* sveltos.HelmChartOpts of one service (lines 1019-1035); template stands for
\* the repository URL, the chart name and the chart version of the template
HelmChartOpts(svc) ==
    [template |-> svc.template,
     releaseName |-> svc.releaseName,
     releaseNamespace |-> IF svc.releaseNamespace # "" THEN svc.releaseNamespace
                          ELSE svc.releaseName]

\* a bug: a ServiceTemplate without a chartRef in its status resolves all the same
getServiceTemplateRepoURLWithoutChartRef(t, state) ==
    IF state = "noChart"
    THEN [calls |-> <<Call("GetHelmChart", t, "error")>>, err |-> TRUE]
    ELSE IF state = "noRepository"
    THEN [calls |-> <<Call("GetHelmChart", t, "ok"),
                      Call("GetHelmRepository", t, "error")>>, err |-> TRUE]
    ELSE [calls |-> <<Call("GetHelmChart", t, "ok"),
                      Call("GetHelmRepository", t, "ok")>>, err |-> FALSE]

\* getServiceTemplateRepoURL: [calls, err]
getServiceTemplateRepoURL(t, state) ==
    IF state = "noChartRef"
    THEN [calls |-> <<>>, err |-> TRUE]
    ELSE IF state = "noChart"
    THEN [calls |-> <<Call("GetHelmChart", t, "error")>>, err |-> TRUE]
    ELSE IF state = "noRepository"
    THEN [calls |-> <<Call("GetHelmChart", t, "ok"),
                      Call("GetHelmRepository", t, "error")>>, err |-> TRUE]
    ELSE [calls |-> <<Call("GetHelmChart", t, "ok"),
                      Call("GetHelmRepository", t, "ok")>>, err |-> FALSE]

\* the loop of updateServices from the i-th service on; acc = [opts, calls, err]
RECURSIVE servicesLoop(_, _, _, _)
servicesLoop(services, templates, i, acc) ==
    IF i > Len(services) THEN acc
    ELSE LET svc == services[i]
         IN IF ~svc.install
            THEN servicesLoop(services, templates, i + 1, acc)
            ELSE IF templates[svc.template] = "notfound"
            THEN [acc EXCEPT !.calls = Append(@, Call("GetServiceTemplate", svc.template,
                                                      "error")),
                             !.err = TRUE]
            ELSE LET url == getServiceTemplateRepoURL(svc.template, templates[svc.template])
                     calls == Append(acc.calls, Call("GetServiceTemplate", svc.template, "ok"))
                                \o url.calls
                 IN IF url.err
                    THEN [acc EXCEPT !.calls = calls, !.err = TRUE]
                    ELSE servicesLoop(services, templates, i + 1,
                                      [acc EXCEPT !.calls = calls,
                                                  !.opts = Append(@, HelmChartOpts(svc))])

\* updateServices
SvcUpdateServices ==
    \E profileErr \in BOOLEAN :
    \E r \in {servicesLoop(svcServices, svcTemplates, 1,
                           [opts |-> <<>>, calls |-> <<>>, err |-> FALSE])} :
        IF r.err
        THEN /\ ~profileErr
             /\ svcPass' = Pass("updateServices", r.calls, TRUE, 0)
             /\ UNCHANGED svcProfile
        ELSE IF profileErr
        THEN /\ svcPass' = Pass("updateServices",
                                Append(r.calls, Call("ReconcileClusterProfile", r.opts, "error")),
                                TRUE, 0)
             /\ UNCHANGED svcProfile
        ELSE /\ svcPass' = Pass("updateServices",
                                Append(r.calls, Call("ReconcileClusterProfile", r.opts, "ok")),
                                FALSE, DefaultRequeueInterval)
             /\ svcProfile' = [present |-> TRUE, charts |-> r.opts]

\* an update pass reaches updateServices
SvcReconcile ==
    /\ SvcUpdateServices
    /\ UNCHANGED <<svcServices, svcTemplates, mcVars, mgVars, tvVars, pmVars, cfVars, whVars, pvVars, ruVars>>

\* the user edits spec.services
SvcSpecChange ==
    /\ svcServices' \in ServiceLists \ {svcServices}
    /\ svcPass' = IdlePass
    /\ UNCHANGED <<svcTemplates, svcProfile, mcVars, mgVars, tvVars, pmVars, cfVars, whVars, pvVars, ruVars>>

\* a ServiceTemplate, its chart or its repository appears or disappears
SvcTemplateChange ==
    /\ svcTemplates' \in ServiceTemplateMaps \ {svcTemplates}
    /\ svcPass' = IdlePass
    /\ UNCHANGED <<svcServices, svcProfile, mcVars, mgVars, tvVars, pmVars, cfVars, whVars, pvVars, ruVars>>

InitSvc ==
    /\ svcServices \in ServiceLists
    /\ svcTemplates \in ServiceTemplateMaps
    /\ svcProfile = NoProfile
    /\ svcPass = IdlePass
    /\ McIdleInit
    /\ MgIdleInit
    /\ TvIdleInit
    /\ PmIdleInit
    /\ CfIdleInit
    /\ WhIdleInit
    /\ PvIdleInit
    /\ RuIdleInit

NextSvc ==
    \/ SvcReconcile
    \/ SvcSpecChange
    \/ SvcTemplateChange

SpecSvc == InitSvc /\ [][NextSvc]_vars

(***************************************************************************)
(* Properties of the ManagedCluster loop (under Spec)                       *)
(***************************************************************************)
\* the position of the first call c of a pass, 0 when the pass does not make it
FirstCall(p, c) ==
    IF Called(p, c) THEN CHOOSE i \in DOMAIN p.calls :
            /\ p.calls[i].call = c
            /\ \A j \in 1..(i - 1) : p.calls[j].call # c
    ELSE 0

\* the pass removed the ManagedCluster finalizer
RemovedFinalizer(p) == p.op = "Delete" /\ CallOut(p, "UpdateManagedCluster", "-", "ok")

\* C1: the ManagedCluster finalizer is removed only by a deletion pass whose Get of
\* the primary release returned NotFound, the release being absent; a pass that
\* finds the release, or whose Get fails with another error, leaves the finalizer.
C1_FinalizerRemovedOnlyOnNotFound ==
    [][(mcFinalizer /\ ~mcFinalizer') =>
            /\ mcDeleting
            /\ hr = "absent"
            /\ mcPass'.op = "Delete"
            /\ CallOut(mcPass', "GetHelmRelease", "-", "notfound")
            /\ ~CallOut(mcPass', "GetHelmRelease", "-", "found")
            /\ ~CallOut(mcPass', "GetHelmRelease", "-", "error")]_vars

\* C1 witness: a deletion that found the release in an earlier pass has removed
\* the finalizer in a pass whose Get returned NotFound
C1_Witness ==
    /\ RemovedFinalizer(mcPass)
    /\ CallOut(mcPass, "GetHelmRelease", "-", "notfound")
    /\ hrSeenInDelete
    /\ ~mcFinalizer /\ ~mcPresent

\* C2, as claimed: whenever the finalizer has been removed, a profile delete was
\* issued in an earlier pass
C2_ProfileDeleteInEveryRun ==
    RemovedFinalizer(mcPass) => profileDeleteIssued

\* C2, amended: a deletion pass issues the release delete only after the profile
\* delete has returned without error in the same pass, so a release delete is never
\* issued before a profile delete; and when a deletion pass has found the release,
\* the finalizer is removed only after a profile delete and a release delete were issued.
C2_ProfileDeleteBeforeReleaseDelete ==
    /\ hrDeleteIssued => profileDeleteIssued
    /\ (mcPass.op = "Delete" /\ Called(mcPass, "DeleteHelmRelease")) =>
            /\ CallOut(mcPass, "DeleteClusterProfile", "-", "ok")
            /\ FirstCall(mcPass, "DeleteClusterProfile") < FirstCall(mcPass, "DeleteHelmRelease")
    /\ (RemovedFinalizer(mcPass) /\ hrSeenInDelete) =>
            (profileDeleteIssued /\ hrDeleteIssued)

\* C2 witness: the finalizer is removed after an earlier pass found the release and
\* issued the profile delete
C2_Witness ==
    /\ RemovedFinalizer(mcPass)
    /\ hrSeenInDelete
    /\ profileDeleteIssued
    /\ profile = "absent"

\* C3: while a machine of a provider's infra object exists, no step removes the
\* blocking finalizer from that infra object and no deletion pass patches it; the
\* gate, when it lists the machines, reports them found unless the list fails; and
\* a deletion pass that runs the gate leaves the ManagedCluster finalizer and ends
\* with an error or with a requeue after DefaultRequeueInterval.
C3_GateBlocksWhileMachinesExist ==
    [][\A p \in providerGVKs : machines[p] > 0 =>
            /\ infra[p] = "blocked" => infra'[p] = "blocked"
            /\ mcPass'.op = "Delete" =>
                    /\ ~CalledOn(mcPass', "Patch", p)
                    /\ infra'[p] = infra[p]
            /\ (mcPass'.op = "Delete" /\ CalledOn(mcPass', "machinesAvailable", p)) =>
                    /\ CallOut(mcPass', "machinesAvailable", p, "true")
                        \/ CallOut(mcPass', "machinesAvailable", p, "error")
            /\ (mcPass'.op = "Delete" /\ Called(mcPass', "getProviders")) =>
                    /\ ~Called(mcPass', "UpdateManagedCluster")
                    /\ mcFinalizer' = mcFinalizer
                    /\ mcPresent' = mcPresent
                    /\ ~mcPass'.err => mcPass'.requeueAfter = DefaultRequeueInterval]_vars

\* C3 witness: a deletion pass found a machine of aws, left the blocking finalizer
\* on the infra object and ended with the timed requeue
C3_Witness ==
    /\ mcPass.op = "Delete"
    /\ CallOut(mcPass, "machinesAvailable", "aws", "true")
    /\ machines["aws"] > 0
    /\ infra["aws"] = "blocked"
    /\ mcFinalizer
    /\ ~mcPass.err
    /\ mcPass.requeueAfter = DefaultRequeueInterval

\* C4, as claimed: after a deletion pass that ran the release gate without error, no
\* recognised provider of the template has an infra object that carries the
\* blocking finalizer and has no machine
C4_EveryIdleInfraObjectReleased ==
    (mcPass.op = "Delete" /\ CallOut(mcPass, "getProviders", "-", "ok") /\ ~mcPass.err) =>
        \A i \in DOMAIN tmplProviders :
            (tmplProviders[i] \in providerGVKs /\ machines[tmplProviders[i]] = 0) =>
                infra[tmplProviders[i]] # "blocked"

\* C4, on the infra object the gate examines: a deletion pass whose gate found no
\* machine of a provider's infra object patches the infra object exactly when it
\* carries the blocking finalizer, and the patch, when it succeeds, removes the
\* finalizer; an infra object without the finalizer is not patched and is left as
\* it is.
C4_GateReleasesWithoutMachines ==
    [][\A p \in providerGVKs :
        (mcPass'.op = "Delete" /\ CallOut(mcPass', "machinesAvailable", p, "false")) =>
            /\ machines[p] = 0
            /\ infra[p] = "blocked" =>
                    /\ CalledOn(mcPass', "Patch", p)
                    /\ CallOut(mcPass', "Patch", p, "ok") => infra'[p] = "released"
                    /\ CallOut(mcPass', "Patch", p, "error") => infra'[p] = "blocked"
            /\ infra[p] # "blocked" =>
                    /\ ~CalledOn(mcPass', "Patch", p)
                    /\ infra'[p] = infra[p]]_vars

\* C4 witness: a deletion pass found no machine of aws and patched the blocking
\* finalizer away
C4_Witness ==
    /\ mcPass.op = "Delete"
    /\ CallOut(mcPass, "machinesAvailable", "aws", "false")
    /\ CallOut(mcPass, "Patch", "aws", "ok")
    /\ infra["aws"] = "released"

\* C4 witness, finalizer already absent: a deletion pass found no machine of aws,
\* whose infra object no longer carries the finalizer, and issued no patch
C4_WitnessNoPatch ==
    /\ mcPass.op = "Delete"
    /\ CallOut(mcPass, "getCluster", "aws", "released")
    /\ CallOut(mcPass, "machinesAvailable", "aws", "false")
    /\ ~Called(mcPass, "Patch")

\* C5, as claimed: a deletion pass that ran the release gate to its end without
\* error has located the infra object of every recognised provider of the template
C5_EveryProviderChecked ==
    (mcPass.op = "Delete" /\ CallOut(mcPass, "getProviders", "-", "ok") /\ ~mcPass.err) =>
        \A i \in DOMAIN tmplProviders :
            tmplProviders[i] \in providerGVKs =>
                CalledOn(mcPass, "getCluster", tmplProviders[i])

\* C6: an update pass that reads a ClusterTemplate with valid=false returns an
\* error, makes no call for the chart source, the chart download, the release or
\* the add-on profile, leaves release and profile as they are, and the status it
\* writes carries TemplateReady=False.
C6_InvalidTemplateStopsUpdate ==
    [][(mcPass'.op = "Update" /\ CallOut(mcPass', "GetTemplate", "-", "invalid")) =>
            /\ mcPass'.err
            /\ \A c \in {"getSource", "DownloadChartFromArtifact", "actionConfigInit",
                         "validateReleaseWithValues", "ReconcileHelmRelease",
                         "ResolveServices", "ReconcileClusterProfile"} :
                    ~Called(mcPass', c)
            /\ hr' = hr
            /\ profile' = profile
            /\ CallOut(mcPass', "StatusUpdate", "-", "ok") =>
                    /\ mcConditions'[TemplateReadyCondition] = "False"
                    /\ mcConditions'[ReadyCondition] = "False"]_vars

\* C6 witness: an update pass read an invalid template and wrote TemplateReady=False
C6_Witness ==
    /\ mcPass.op = "Update"
    /\ CallOut(mcPass, "GetTemplate", "-", "invalid")
    /\ CallOut(mcPass, "StatusUpdate", "-", "ok")
    /\ mcPass.err
    /\ mcConditions[TemplateReadyCondition] = "False"

\* C7: for a ManagedCluster with dryRun=true, no release and no add-on profile
\* exists, no HelmReleaseReady condition is in the status, and an update pass that
\* validated the chart with the values makes no call for release or profile, ends
\* without error, and writes TemplateReady=True and HelmChartReady=True.
C7_DryRunCreatesNothing ==
    mcDryRun =>
        /\ hr = "absent"
        /\ profile = "absent"
        /\ mcConditions[HelmReleaseReadyCondition] = NoCond
        /\ mcPass.op = "Update" =>
                /\ ~Called(mcPass, "ReconcileHelmRelease")
                /\ ~Called(mcPass, "ReconcileClusterProfile")
        /\ (mcPass.op = "Update"
                /\ CallOut(mcPass, "validateReleaseWithValues", "-", "ok")
                /\ CallOut(mcPass, "StatusUpdate", "-", "ok")) =>
                /\ ~mcPass.err
                /\ mcPass.requeueAfter = 0
                /\ mcConditions[TemplateReadyCondition] = "True"
                /\ mcConditions[HelmChartReadyCondition] = "True"

\* C7 witness: a dry-run update pass validated the chart and wrote its status
C7_Witness ==
    /\ mcDryRun
    /\ mcPass.op = "Update"
    /\ CallOut(mcPass, "validateReleaseWithValues", "-", "ok")
    /\ CallOut(mcPass, "StatusUpdate", "-", "ok")
    /\ mcConditions[TemplateReadyCondition] = "True"
    /\ mcConditions[HelmChartReadyCondition] = "True"
    /\ mcConditions[HelmReleaseReadyCondition] = NoCond

(***************************************************************************)
(* Properties of the Management loop (under SpecMgmt)                       *)
(***************************************************************************)
\* the pass reached the component loop and the status write after it
InstallPass == mgPass.op = "Update" /\ Called(mgPass, "StatusUpdate")

\* the Gets of the component templates of a pass, in order
TemplateGets(p) == SelectSeq(p.calls, LAMBDA c : c.call = "GetTemplate")

\* the calls of a pass that failed for a component, in order, and their errors
FailedCall(c) ==
    \/ c.call = "GetTemplate" /\ c.out \in {"error", "invalid"}
    \/ c.call = "ReconcileHelmRelease" /\ c.out = "error"
ErrorOfCall(c) ==
    IF c.call = "ReconcileHelmRelease" THEN ErrRelease(c.arg)
    ELSE IF c.out = "invalid" THEN ErrNotValid(c.arg)
    ELSE ErrGet(c.arg)
ComponentErrors(p) ==
    LET failed == SelectSeq(p.calls, FailedCall)
    IN [i \in DOMAIN failed |-> ErrorOfCall(failed[i])]

\* C8: an installer pass gets the template of every component of the ordered list,
\* in order, whatever happened to the components before it; a component whose
\* template is missing or not valid gets no release reconcile, and the status the
\* pass writes records it with success=false and a non-empty error.
C8_FailedComponentRecordedOthersAttempted ==
    InstallPass =>
        LET comps == wrappedComponents(mgmt)
            gets == TemplateGets(mgPass)
        IN /\ Len(gets) = Len(comps)
           /\ \A i \in DOMAIN comps :
                /\ gets[i].arg = comps[i].template
                /\ mgTemplates[comps[i].template] = "missing" => gets[i].out = "error"
                /\ mgTemplates[comps[i].template] = "invalid" =>
                        gets[i].out \in {"invalid", "error"}
                /\ mgTemplates[comps[i].template] # "valid" =>
                        /\ ~CalledOn(mgPass, "ReconcileHelmRelease", comps[i].template)
                        /\ CallOut(mgPass, "StatusUpdate", "-", "ok") =>
                            LET e == mgmt.status.components[comps[i].template]
                            IN e.set /\ ~e.success /\ e.error # NoErr
                /\ (mgTemplates[comps[i].template] = "valid" /\ gets[i].out = "valid") =>
                        CalledOn(mgPass, "ReconcileHelmRelease", comps[i].template)

\* C8 witness: the template of the second component is not valid, the pass
\* recorded the failure and reconciled the release of a provider after it
C8_Witness ==
    /\ InstallPass
    /\ CallOut(mgPass, "StatusUpdate", "-", "ok")
    /\ mgTemplates[mgmt.core.capi] # "valid"
    /\ ~mgmt.status.components[mgmt.core.capi].success
    /\ mgmt.status.components[mgmt.core.capi].error # NoErr
    /\ CallOut(mgPass, "ReconcileHelmRelease", "p1", "ok")
    /\ mgmt.status.components["p1"].success

\* C9: an installer pass in which a component fails still gets the template of
\* every component and writes the status; the error it returns joins the error of
\* every failed component, in order, and the error of the status write; it returns
\* nil exactly when no component failed and the status write succeeded; the
\* status entry of a provider template p1 that was read as not valid is
\* success=false with the error "Template <ns>/p1 is not marked as valid".
C9_JoinedErrorOfInstallerPass ==
    InstallPass =>
        LET statusErrs == IF CallOut(mgPass, "StatusUpdate", "-", "error")
                          THEN <<ErrStatus>> ELSE <<>>
        IN /\ Len(TemplateGets(mgPass)) = Len(wrappedComponents(mgmt))
           /\ mgPass.calls[Len(mgPass.calls)].call = "StatusUpdate"
           /\ mgPass.errs = ComponentErrors(mgPass) \o statusErrs
           /\ mgPass.errs = <<>> <=>
                /\ \A i \in DOMAIN mgPass.calls : ~FailedCall(mgPass.calls[i])
                /\ CallOut(mgPass, "StatusUpdate", "-", "ok")
           /\ (/\ CallOut(mgPass, "GetTemplate", "p1", "invalid")
               /\ ~CallOut(mgPass, "GetTemplate", "p1", "error")
               /\ CallOut(mgPass, "StatusUpdate", "-", "ok")) =>
                /\ mgmt.status.components["p1"] =
                        [set |-> TRUE, success |-> FALSE, error |-> ErrNotValid("p1")]
                /\ \E i \in DOMAIN mgPass.errs : mgPass.errs[i] = ErrNotValid("p1")

\* C9 witness: p1 is not valid and another component failed in the same pass; the
\* pass wrote the status and returned both errors
C9_Witness ==
    /\ InstallPass
    /\ CallOut(mgPass, "GetTemplate", "p1", "invalid")
    /\ CallOut(mgPass, "StatusUpdate", "-", "ok")
    /\ mgmt.status.components["p1"] =
            [set |-> TRUE, success |-> FALSE, error |-> ErrNotValid("p1")]
    /\ Len(mgPass.errs) = 2
    /\ \E i \in DOMAIN mgPass.errs : mgPass.errs[i] # ErrNotValid("p1")

C11_InstallerPassIdempotent ==
    [][(/\ InstallPass /\ CallOut(mgPass, "StatusUpdate", "-", "ok")
        /\ mgPass'.op = "Update" /\ Called(mgPass', "StatusUpdate")
        /\ mgPass'.calls = mgPass.calls) =>
            /\ mgmt' = mgmt
            /\ mgHmcRelease' = mgHmcRelease
            /\ mgPass'.errs = mgPass.errs
            /\ ~Called(mgPass', "UpdateManagement")]_vars

\* C11 witness: a second installer pass in a row has run, every component
\* succeeded in it, and the status holds the providers of p1 once
C11_Witness ==
    /\ InstallPass
    /\ mgPass.n >= 2
    /\ mgPass.errs = <<>>
    /\ mgmt.providers = <<"p1">>
    /\ mgmt.status.components["p1"].success
    /\ mgmt.status.availableProviders.infra = <<"aws">>

\* C12: in the status an update pass has persisted, Ready is False if a condition
\* of another type is False, otherwise Unknown if a condition of another type is
\* Unknown, otherwise True.
C12_ReadyAggregatesOtherConditions ==
    (mcPass.op = "Update" /\ CallOut(mcPass, "StatusUpdate", "-", "ok")) =>
        LET others == {mcConditions[t] : t \in CondTypes \ {ReadyCondition}}
        IN /\ "False" \in others => mcConditions[ReadyCondition] = "False"
           /\ ("False" \notin others /\ "Unknown" \in others) =>
                mcConditions[ReadyCondition] = "Unknown"
           /\ ("False" \notin others /\ "Unknown" \notin others) =>
                mcConditions[ReadyCondition] = "True"

\* C12 witness: an update pass persisted a status with one condition False and
\* another Unknown, and Ready False
C12_Witness ==
    /\ mcPass.op = "Update"
    /\ CallOut(mcPass, "StatusUpdate", "-", "ok")
    /\ mcConditions[HelmChartReadyCondition] = "False"
    /\ mcConditions[HelmReleaseReadyCondition] = "Unknown"
    /\ mcConditions[ReadyCondition] = "False"

\* C18: an update pass on a ManagedCluster without the finalizer writes the
\* object with the finalizer and returns: it makes no other call, sets no
\* condition, writes no status and leaves the release, the profile and every
\* other object alone.
C18_FinalizerPassDoesNothingElse ==
    [][(mcPresent /\ ~mcDeleting /\ ~mcFinalizer /\ mcPass'.op = "Update") =>
        /\ Len(mcPass'.calls) = 1
        /\ mcPass'.calls[1].call = "UpdateManagedCluster"
        /\ mcFinalizer' <=> mcPass'.calls[1].out = "ok"
        /\ mcPass'.err <=> mcPass'.calls[1].out = "error"
        /\ mcPass'.requeueAfter = 0
        /\ ~Called(mcPass', "StatusUpdate")
        /\ ~Called(mcPass', "GetTemplate")
        /\ ~Called(mcPass', "ReconcileHelmRelease")
        /\ ~Called(mcPass', "ReconcileClusterProfile")
        /\ UNCHANGED <<mcPresent, mcDeleting, mcDryRun, mcObservedGeneration, mcConditions,
                       tmplProviders, hr, profile, infra, machines>>]_vars

\* the finalizer pass has run on a new ManagedCluster
C18_Witness ==
    /\ mcPass.op = "Update"
    /\ mcPass.calls = <<Call("UpdateManagedCluster", "-", "ok")>>
    /\ mcFinalizer
    /\ mcConditions = NoConditions
    /\ mcObservedGeneration = 0
    /\ hr = "absent" /\ profile = "absent"

\* the steps of a Management deletion pass, in the order of Delete
MgTeardownOrder ==
    <<Fail("GetHelmRelease", "-"), Fail("UpdateHelmRelease", "-"),
      Fail("EnsureDeleteAllOf", "HelmRelease"), Fail("EnsureDeleteAllOf", "HelmChart"),
      Fail("EnsureDeleteAllOf", "HelmRepository"), Fail("UpdateManagement", "-")>>

\* the place of a call among the steps of the deletion pass, 0 for any other call
MgTeardownStep(c) ==
    IF \E k \in DOMAIN MgTeardownOrder : MgTeardownOrder[k] = Fail(c.call, c.arg)
    THEN CHOOSE k \in DOMAIN MgTeardownOrder : MgTeardownOrder[k] = Fail(c.call, c.arg)
    ELSE 0

\* C16: a Management deletion pass suspends the core release when it is
\* present and not suspended, then issues delete-all-of for releases, charts
\* and repositories in that order; a failing step is the last step of the
\* pass; the finalizer is removed only by a pass whose suspend step and three
\* delete-all steps returned without error.
C16_DeletionStepsInOrder ==
    [][(mgmt.present /\ mgmt.deleting /\ mgPass'.op = "Delete" /\ ~mgPass'.panic) =>
        LET p == mgPass'
        IN /\ Len(p.calls) >= 1 /\ p.calls[1].call = "GetHelmRelease"
           /\ \A i \in DOMAIN p.calls : MgTeardownStep(p.calls[i]) > 0
           /\ \A i, j \in DOMAIN p.calls :
                i < j => MgTeardownStep(p.calls[i]) < MgTeardownStep(p.calls[j])
           \* the suspend step
           /\ Called(p, "UpdateHelmRelease") <=> mgHmcRelease = "active"
                                                 /\ p.calls[1].out # "error"
           /\ CallOut(p, "UpdateHelmRelease", "-", "ok") => mgHmcRelease' # "active"
           \* no step is skipped
           /\ \A k \in 1..Len(DeleteKinds) :
                CalledOn(p, "EnsureDeleteAllOf", DeleteKinds[k]) =>
                    IF k = 1 THEN p.calls[1].out # "error"
                    ELSE CallOut(p, "EnsureDeleteAllOf", DeleteKinds[k - 1], "ok")
           \* an error ends the pass
           /\ \A i \in DOMAIN p.calls : p.calls[i].out = "error" => i = Len(p.calls)
           /\ (\E i \in DOMAIN p.calls : p.calls[i].out = "error") <=> p.errs # <<>>
           \* the finalizer
           /\ (mgmt.finalizer /\ ~mgmt'.finalizer) =>
                /\ \A i \in DOMAIN p.calls : p.calls[i].out # "error"
                /\ \A k \in 1..Len(DeleteKinds) :
                     CallOut(p, "EnsureDeleteAllOf", DeleteKinds[k], "ok")
                /\ CallOut(p, "UpdateManagement", "-", "ok")]_vars

\* a deletion pass has suspended the core release, issued the three deletions
\* and removed the finalizer
C16_Witness ==
    /\ mgPass.op = "Delete"
    /\ CallOut(mgPass, "UpdateHelmRelease", "-", "ok")
    /\ CallOut(mgPass, "EnsureDeleteAllOf", "HelmRepository", "ok")
    /\ CallOut(mgPass, "UpdateManagement", "-", "ok")
    /\ ~mgmt.finalizer

\* C17: a pass that finds the certificate API absent returns that error
\* before any component is processed: no template is read, no release is
\* reconciled, no status is written and the persisted Management object and
\* the core release are as before the pass.
C17_CertApiAbsentFailsWholePass ==
    [][(mgPass'.op = "Update"
        /\ CallOut(mgPass', "enableAdditionalComponents", "-", "certmanager")) =>
            /\ mgPass'.errs = <<ErrCertManager>>
            /\ ~mgPass'.panic
            /\ mgPass'.calls = <<Call("enableAdditionalComponents", "-", "certmanager")>>
            /\ ~Called(mgPass', "GetTemplate")
            /\ ~Called(mgPass', "ReconcileHelmRelease")
            /\ ~Called(mgPass', "StatusUpdate")
            /\ mgmt' = mgmt
            /\ mgHmcRelease' = mgHmcRelease
            /\ mgTemplates' = mgTemplates]_vars

\* a pass on a Management with components to install has met the absent
\* certificate API
C17_Witness ==
    /\ mgPass.op = "Update"
    /\ CallOut(mgPass, "enableAdditionalComponents", "-", "certmanager")
    /\ mgPass.errs = <<ErrCertManager>>
    /\ mgmt.core.set /\ mgmt.providers # <<>>
    /\ mgmt.status = NoStatus

(***************************************************************************)
(* Properties of the Template validator (under SpecTmpl, SpecTmplFair)     *)
(***************************************************************************)
\* the pass found the artifact ready, downloaded the chart, parsed its
\* metadata and validated it
TvValidated(p) ==
    /\ CallOut(p, "ArtifactReady", "-", "ok")
    /\ CallOut(p, "downloadHelmChart", "-", "ok")
    /\ CallOut(p, "parseChartMetadata", "-", "ok")
    /\ CallOut(p, "Validate", "-", "ok")

\* C13: a persisted Template status with valid = true has a chart reference
\* and an empty validationError, and a pass that wrote valid = true found the
\* artifact ready, downloaded the chart, parsed and validated it.
C13_ValidOnlyAfterValidation ==
    /\ tvStatus.valid => (tvStatus.chartRef # "nil" /\ tvStatus.validationError = "")
    /\ (tvPass.op = "Reconcile" /\ tvPass.wrote /\ tvStatus.valid) => TvValidated(tvPass)

\* a pass has written valid = true
C13_Witness ==
    /\ tvPass.op = "Reconcile" /\ tvPass.wrote
    /\ tvStatus.valid /\ tvStatus.chartRef = "HelmChart"
    /\ TvValidated(tvPass)

\* the calls of steps 2-5
TvSteps == {"ArtifactReady", "downloadHelmChart", "parseChartMetadata", "Validate", "Marshal"}
\* a step of the pass returned an error that the pass reports
TvStepFailed(p) == \E c \in TvSteps : CallOut(p, c, "-", "error")
\* the artifact was not ready and nothing is to be reported
TvNotReady(p) == CallOut(p, "ArtifactReady", "-", "notReady")

TvResolvable == tvSpec \in {"chartRef", "chartName", "chartNameManaged"}

\* C15: once the artifact is ready and every step succeeds for good, a
\* Template that is not valid is eventually persisted as valid with an empty
\* validationError, provided queued requests are run.
C15_SelfHealing ==
    (tvHealed /\ TvResolvable /\ ~tvStatus.valid)
        ~> (tvStatus.valid /\ tvStatus.validationError = "")

\* a pass after the healing found the validationError of a failed download
\* and has persisted valid = true
C15_Witness ==
    /\ tvHealed
    /\ tvPass.op = "Reconcile" /\ tvPass.found = TvMessage("download")
    /\ tvPass.wrote
    /\ tvStatus.valid /\ tvStatus.validationError = ""

(***************************************************************************)
(* Properties of the add-on services (under SpecSvc)                       *)
(***************************************************************************)
\* the services of spec.services to install
InstalledServices(services) == SelectSeq(services, LAMBDA svc : svc.install)

\* some service to install names a ServiceTemplate that does not resolve
SvcUnresolvable ==
    \E i \in DOMAIN svcServices :
        svcServices[i].install /\ svcTemplates[svcServices[i].template] # "ok"

\* C19: when a service with install=true does not resolve (its ServiceTemplate,
\* the chartRef of its status, its chart or its repository is missing), the
\* add-on pass returns an error and the profile is neither created nor updated.
C19_UnresolvedServiceAbortsPass ==
    [][(svcPass'.op = "updateServices" /\ SvcUnresolvable) =>
        /\ svcPass'.err
        /\ svcPass'.requeueAfter = 0
        /\ ~Called(svcPass', "ReconcileClusterProfile")
        /\ svcProfile' = svcProfile]_vars

\* a pass has met a ServiceTemplate without chartRef after an earlier pass had
\* written the profile, and the profile still has its entry
C19_Witness ==
    /\ svcPass.op = "updateServices" /\ svcPass.err
    /\ \E i \in DOMAIN svcServices :
        svcServices[i].install /\ svcTemplates[svcServices[i].template] = "noChartRef"
    /\ ~Called(svcPass, "ReconcileClusterProfile")
    /\ svcProfile.present /\ svcProfile.charts # <<>>

\* C20: a pass that reconciles the profile gives it one entry for each service
\* with install=true, in the order of the spec, and none for a service with
\* install=false; with no service to install the profile is reconciled with no
\* entry; the release namespace of an entry is the service's releaseNamespace,
\* or its releaseName when that is empty.
C20_ProfileEntriesFollowServices ==
    (svcPass.op = "updateServices" /\ ~svcPass.err) =>
        LET inst == InstalledServices(svcServices)
        IN /\ svcProfile.present
           /\ CallOut(svcPass, "ReconcileClusterProfile", svcProfile.charts, "ok")
           /\ Len(svcProfile.charts) = Len(inst)
           /\ \A i \in DOMAIN inst :
                /\ svcProfile.charts[i].template = inst[i].template
                /\ svcProfile.charts[i].releaseName = inst[i].releaseName
                /\ svcProfile.charts[i].releaseNamespace =
                     (IF inst[i].releaseNamespace = "" THEN inst[i].releaseName
                      ELSE inst[i].releaseNamespace)

\* a profile written for a service that is not installed followed by a service
\* with an empty releaseNamespace
C20_Witness ==
    /\ svcPass.op = "updateServices" /\ ~svcPass.err
    /\ svcServices = <<Service("kyverno", FALSE, "kyverno", ""),
                       Service("ingress", TRUE, "ingress", "")>>
    /\ svcProfile = [present |-> TRUE,
                     charts |-> <<[template |-> "ingress", releaseName |-> "ingress",
                                   releaseNamespace |-> "ingress"]>>]

(***************************************************************************)
(* Further properties of the ManagedCluster loop (under Spec)              *)
(***************************************************************************)
\* C21: an update pass that does not find the generated CAPI Cluster object
\* takes it as no error: it asks for a requeue after DefaultRequeueInterval,
\* returns an error only when the deferred status write fails, changes no
\* condition the Cluster object reports, and does not reach the add-on profile.
C21_InfraNotFoundIsNoError ==
    [][(mcPresent /\ ~mcDeleting /\ mcPass'.op = "Update"
        /\ CallOut(mcPass', "ListClusters", "-", "notfound")) =>
            /\ ~mcPass'.panic
            /\ mcPass'.requeueAfter = DefaultRequeueInterval
            /\ mcPass'.err <=> CallOut(mcPass', "StatusUpdate", "-", "error")
            /\ \A t \in InfraCondTypes \ {ReadyCondition} : mcConditions'[t] = mcConditions[t]
            /\ ~Called(mcPass', "ResolveServices")
            /\ ~Called(mcPass', "ReconcileClusterProfile")
            /\ profile' = profile]_vars

\* a pass has not found the Cluster object, has written the status and asks
\* for a requeue without an error
C21_Witness ==
    /\ mcPass.op = "Update"
    /\ CallOut(mcPass, "ListClusters", "-", "notfound")
    /\ CallOut(mcPass, "StatusUpdate", "-", "ok")
    /\ ~mcPass.err
    /\ mcPass.requeueAfter = DefaultRequeueInterval
    /\ profile = "absent"

\* C22: an update pass of the ManagedCluster that returns an error and has
\* written the status has recorded the failure: some condition of the
\* persisted status is False.
C22_EveryReturnedErrorRecorded ==
    (mcPass.op = "Update" /\ mcPass.err /\ ~mcPass.panic
     /\ CallOut(mcPass, "StatusUpdate", "-", "ok")) =>
        \E t \in CondTypes : mcConditions[t] = "False"

(***************************************************************************)
(* Further properties of the Management loop (under SpecMgmt)              *)
(***************************************************************************)
\* C23: the component list of a Management with a core is the core HMC
\* component without dependency, then the core CAPI component depending on the
\* HMC component, then every provider in the order of the spec depending on the
\* CAPI component; only a provider named ProviderSveltosName gets the target
\* namespace and create-namespace; an installer pass goes through the list in
\* that order.
C23_ThreeTierComponents ==
    (mgmt.present /\ mgmt.core.set) =>
        LET comps == wrappedComponents(mgmt)
        IN /\ Len(comps) = 2 + Len(mgmt.providers)
           /\ comps[1] = Component(mgmt.core.hmc, <<>>, "", FALSE)
           /\ comps[2] = Component(mgmt.core.capi, <<mgmt.core.hmc>>, "", FALSE)
           /\ \A i \in DOMAIN mgmt.providers :
                /\ comps[2 + i].template = mgmt.providers[i]
                /\ comps[2 + i].dependsOn = <<mgmt.core.capi>>
                /\ IF mgmt.providers[i] = ProviderSveltosName
                   THEN comps[2 + i].targetNamespace = "projectsveltos"
                        /\ comps[2 + i].createNamespace
                   ELSE comps[2 + i].targetNamespace = ""
                        /\ ~comps[2 + i].createNamespace
           /\ InstallPass =>
                LET gets == TemplateGets(mgPass)
                IN /\ Len(gets) = Len(comps)
                   /\ \A i \in DOMAIN comps : gets[i].arg = comps[i].template

\* an installer pass has gone through the core components, the add-on
\* provider and another provider
C23_Witness ==
    /\ InstallPass
    /\ mgmt.present /\ mgmt.core.set
    /\ mgmt.providers = <<ProviderSveltosName, "p1">>
    /\ Len(TemplateGets(mgPass)) = 4

\* the release reconciles of a pass that succeeded, in order: one for each
\* component that succeeded
SucceededReleases(p) ==
    SelectSeq(p.calls, LAMBDA c : c.call = "ReconcileHelmRelease" /\ c.out = "ok")

\* the provider lists of the templates of the first n of these, concatenated
RECURSIVE ProvidersOfTemplates(_, _)
ProvidersOfTemplates(calls, n) ==
    IF n = 0 THEN NoProviders
    ELSE LET before == ProvidersOfTemplates(calls, n - 1)
             t == TemplateStatusProviders(calls[n].arg)
         IN [infra |-> before.infra \o t.infra,
             bootstrap |-> before.bootstrap \o t.bootstrap,
             controlPlane |-> before.controlPlane \o t.controlPlane]

\* C24: the availableProviders an installer pass persists are the provider
\* lists of the templates of the components that succeeded in the pass,
\* concatenated in component order, duplicates kept; a failed component adds
\* nothing and nothing of the status read is kept.
C24_AvailableProvidersOfThePass ==
    (InstallPass /\ CallOut(mgPass, "StatusUpdate", "-", "ok")) =>
        LET succ == SucceededReleases(mgPass)
        IN mgmt.status.availableProviders = ProvidersOfTemplates(succ, Len(succ))

\* the same provider template twice, both succeeded: its providers twice
C24_Witness ==
    /\ InstallPass /\ CallOut(mgPass, "StatusUpdate", "-", "ok")
    /\ mgmt.providers = <<"p1", "p1">>
    /\ mgmt.status.availableProviders.infra = <<"aws", "aws">>
    /\ mgmt.status.availableProviders.bootstrap = <<"kubeadm", "k0s", "k0s">>

\* C25: an update pass reaches the add-on profile only when, in that pass, the
\* release was reconciled without error and is Ready and the CAPI Cluster
\* object was found with every condition True.
C25_ProfileOnlyWhenReleaseReady ==
    [][(mcPresent /\ ~mcDeleting /\ mcPass'.op = "Update"
        /\ (Called(mcPass', "ResolveServices") \/ Called(mcPass', "ReconcileClusterProfile")
            \/ profile' # profile)) =>
            /\ CallOut(mcPass', "ReconcileHelmRelease", "True", "ok")
            /\ CallOut(mcPass', "ListClusters", "complete", "found")
            /\ FirstCall(mcPass', "ReconcileHelmRelease") < FirstCall(mcPass', "ListClusters")
            /\ FirstCall(mcPass', "ListClusters") < FirstCall(mcPass', "ResolveServices")
            /\ ~mcDryRun]_vars

\* a pass with the release Ready and the Cluster complete has reconciled the profile
C25_Witness ==
    /\ mcPass.op = "Update"
    /\ CallOut(mcPass, "ReconcileHelmRelease", "True", "ok")
    /\ CallOut(mcPass, "ListClusters", "complete", "found")
    /\ CallOut(mcPass, "ReconcileClusterProfile", "-", "ok")
    /\ profile = "present"

(***************************************************************************)
(* Template validator: the chart metadata.  parseChartMetadata of          *)
(* internal/controller/template_controller.go (lines 223-256) serves the   *)
(* ClusterTemplate, ServiceTemplate and ProviderTemplate kinds; the        *)
(* TemplateReconciler of the single Template kind (unnamed/part_001, lines *)
(* 149-191) also settles the type of the template.  The pass is followed   *)
(* from the point where the chart has been downloaded.  A provider         *)
(* annotation is the sequence of its characters.                           *)
(***************************************************************************)
TemplateTypes == {"deployment", "provider", "core"}

errNoProviderType ==
    "template type is not supported: type chart annotation must be one of [deployment/provider/core]"

\* spec.type of a Template: unset, or one of the kinds the API admits
SpecTemplateTypes == {""} \cup TemplateTypes

\* the type annotation of a chart: absent, a recognised kind, anything else
ChartAnnotationTypes == {""} \cup TemplateTypes \cup {"unknown"}

\* a provider list of a Template spec: unset, or one name
SpecProviderLists == {<<>>, << <<"b">> >>}

\* a provider annotation of a chart: absent, "a", "a,c", "a,"
ProviderAnnotations == {<<>>, <<"a">>, <<"a", ",", "c">>, <<"a", ",">>}

ProviderListNames == {"infra", "bootstrap", "controlPlane"}

\* the status an earlier pass over a chart annotated "z" has left
ParsedStatus(kind) ==
    [type |-> IF kind = "Template" THEN "provider" ELSE "",
     providers |-> [l \in ProviderListNames |-> << <<"z">> >>],
     valid |-> TRUE, validationError |-> "", observedGeneration |-> Generation]

ParsedTemplates ==
    {[kind |-> k, type |-> t, providers |-> p, status |-> s] :
        k \in {"Template"}, t \in SpecTemplateTypes,
        p \in [ProviderListNames -> SpecProviderLists],
        s \in {NoParsedStatus, ParsedStatus("Template")}}
    \cup
    {[kind |-> k, type |-> "", providers |-> p, status |-> s] :
        k \in {"ClusterTemplate"},
        p \in [ProviderListNames -> SpecProviderLists],
        s \in {NoParsedStatus, ParsedStatus("ClusterTemplate")}}

ParsedCharts ==
    {[metadata |-> FALSE, type |-> "", providers |-> NoProviderLists]}
    \cup
    {[metadata |-> TRUE, type |-> t, providers |-> p] :
        t \in ChartAnnotationTypes, p \in [ProviderListNames -> ProviderAnnotations]}

PmEnvs == [fault : {"none", "validate"}, statusUpdate : {"ok", "error"}]

RECURSIVE SplitFrom(_, _, _, _)
\* the parts of s from position i on, cur being the part read so far
SplitFrom(s, sep, i, cur) ==
    IF i > Len(s) THEN <<cur>>
    ELSE IF s[i] = sep THEN <<cur>> \o SplitFrom(s, sep, i + 1, <<>>)
    ELSE SplitFrom(s, sep, i + 1, Append(cur, s[i]))

\* strings.Split(s, sep) for a separator of one character
Split(s, sep) == SplitFrom(s, sep, 1, <<>>)

\* a bug: the annotation wins over the list of the spec
statusProvidersAnnotationFirst(specList, annotation, statusList) ==
    IF annotation # <<>> THEN Split(annotation, ",")
    ELSE IF Len(specList) > 0 THEN specList
    ELSE statusList

\* one provider list of the status: the value in spec has higher priority
statusProviders(specList, annotation, statusList) ==
    IF Len(specList) > 0 THEN specList
    ELSE IF annotation # <<>> THEN Split(annotation, ",")
    ELSE statusList

\* the three provider lists of the status
parseProviders(template, chart) ==
    [l \in ProviderListNames |->
        statusProviders(template.providers[l], chart.providers[l],
                        template.status.providers[l])]

\* parseChartMetadata of template_controller.go: the status in memory and the error
parseChartMetadata(template, chart) ==
    IF ~chart.metadata
    THEN [status |-> template.status, err |-> TvMessage("metadata")]
    ELSE [status |-> [template.status EXCEPT !.providers = parseProviders(template, chart)],
          err |-> ""]

\* a bug: the type annotation is taken as it is
TemplateParseChartMetadataAnyType(template, chart) ==
    IF ~chart.metadata
    THEN [status |-> template.status, err |-> TvMessage("metadata")]
    ELSE [status |-> [template.status EXCEPT
                         !.type = IF template.type = "" THEN chart.type ELSE template.type,
                         !.providers = parseProviders(template, chart)],
          err |-> ""]

\* TemplateReconciler.parseChartMetadata of the Template kind
TemplateParseChartMetadata(template, chart) ==
    IF ~chart.metadata
    THEN [status |-> template.status, err |-> TvMessage("metadata")]
    ELSE IF template.type = "" /\ chart.type \notin TemplateTypes
    THEN [status |-> template.status, err |-> errNoProviderType]
    ELSE [status |-> [template.status EXCEPT
                         !.type = IF template.type = "" THEN chart.type ELSE template.type,
                         !.providers = parseProviders(template, chart)],
          err |-> ""]

\* the pass from the downloaded chart on: parse, validate, write the status
PmReconcilePass(template, chart, env) ==
    LET parsed == IF template.kind = "Template"
                  THEN TemplateParseChartMetadata(template, chart)
                  ELSE parseChartMetadata(template, chart)
        calls == <<Call("downloadHelmChart", "-", "ok")>>
    IN IF parsed.err # ""
       THEN TvReport(parsed.status, Append(calls, Call("parseChartMetadata", "-", "error")),
                     env, parsed.err)
       ELSE IF env.fault = "validate"
       THEN TvReport(parsed.status,
                     calls \o <<Call("parseChartMetadata", "-", "ok"),
                                Call("Validate", "-", "error")>>,
                     env, TvMessage("validate"))
       ELSE [status |-> TvUpdateStatus(parsed.status, ""),
             pass |-> TvPass(parsed.status,
                             calls \o <<Call("parseChartMetadata", "-", "ok"),
                                        Call("Validate", "-", "ok"),
                                        Call("Marshal", "-", "ok"),
                                        Call("StatusUpdate", "", env.statusUpdate)>>,
                             IF env.statusUpdate = "ok" THEN ""
                             ELSE "failed to update status for template",
                             env.statusUpdate = "ok")]

\* one pass over the downloaded chart
PmReconcile ==
    /\ pmTemplate.kind # "none"
    /\ \E r \in {PmReconcilePass(pmTemplate, pmChart, pmEnv)} :
          /\ pmTemplate' = IF r.pass.wrote THEN [pmTemplate EXCEPT !.status = r.status]
                           ELSE pmTemplate
          /\ pmPass' = r.pass
    /\ UNCHANGED <<pmChart, pmEnv, mcVars, mgVars, tvVars, svVars, cfVars, whVars, pvVars, ruVars>>

\* the API server starts or stops refusing the status write
PmEnvChange ==
    /\ pmTemplate.kind # "none"
    /\ pmEnv' = [pmEnv EXCEPT !.statusUpdate = IF @ = "ok" THEN "error" ELSE "ok"]
    /\ UNCHANGED <<pmTemplate, pmChart, pmPass, mcVars, mgVars, tvVars, svVars, cfVars, whVars, pvVars, ruVars>>

InitParse ==
    /\ pmTemplate \in ParsedTemplates
    /\ pmChart \in ParsedCharts
    /\ pmEnv \in PmEnvs
    /\ pmPass = TvIdlePass
    /\ McIdleInit
    /\ MgIdleInit
    /\ TvIdleInit
    /\ SvIdleInit
    /\ CfIdleInit
    /\ WhIdleInit
    /\ PvIdleInit
    /\ RuIdleInit

NextParse ==
    \/ PmReconcile
    \/ PmEnvChange

SpecParse == InitParse /\ [][NextParse]_vars

(***************************************************************************)
(* Properties of the chart metadata (under SpecParse)                      *)
(***************************************************************************)
\* neither the spec nor the chart's type annotation settles the kind
PmTypeUndetermined ==
    /\ pmTemplate.kind = "Template"
    /\ pmChart.metadata
    /\ pmTemplate.type = ""
    /\ pmChart.type \notin TemplateTypes

RECURSIVE JoinParts(_, _)
\* the parts of a list put together again, sep between them
JoinParts(parts, sep) ==
    IF parts = <<>> THEN <<>>
    ELSE IF Len(parts) = 1 THEN parts[1]
    ELSE parts[1] \o <<sep>> \o JoinParts(Tail(parts), sep)

\* the pass parsed the chart metadata and its status write went through
PmParsed(p) ==
    /\ p.op = "Reconcile"
    /\ CallOut(p, "parseChartMetadata", "-", "ok")
    /\ p.wrote

\* C27: in a pass that parses the chart metadata and writes the status, each
\* of the three provider lists of the status is settled on its own: it is
\* the list of the spec when that list is not empty, whatever the
\* annotation; when the list of the spec is empty and the annotation is not,
\* it is the parts of the annotation between its commas; when both are empty
\* it is left as it was.
C27_SpecProvidersWin ==
    [][PmParsed(pmPass') =>
          \A l \in ProviderListNames :
             LET specList == pmTemplate.providers[l]
                 annotation == pmChart.providers[l]
                 old == pmTemplate.status.providers[l]
                 new == pmTemplate'.status.providers[l]
             IN /\ Len(specList) > 0 => new = specList
                /\ (Len(specList) = 0 /\ annotation # <<>>) =>
                      /\ JoinParts(new, ",") = annotation
                      /\ \A i \in DOMAIN new : \A j \in DOMAIN new[i] : new[i][j] # ","
                /\ (Len(specList) = 0 /\ annotation = <<>>) => new = old]_vars

\* the infrastructure list of the spec has won over an annotation, and the
\* bootstrap list has been derived from the annotation "a,c"
C27_Witness ==
    /\ PmParsed(pmPass)
    /\ pmTemplate.providers["infra"] = << <<"b">> >>
    /\ pmChart.providers["infra"] = <<"a", ",", "c">>
    /\ pmTemplate.status.providers["infra"] = << <<"b">> >>
    /\ pmTemplate.providers["bootstrap"] = <<>>
    /\ pmChart.providers["bootstrap"] = <<"a", ",", "c">>
    /\ pmTemplate.status.providers["bootstrap"] = << <<"a">>, <<"c">> >>

(***************************************************************************)
(* Writes of the reconciled object.  A pass is followed call by call:      *)
(* Reconcile fetches the object (managedcluster_controller.go 752-763,     *)
(* management_controller.go 51-63), Update writes it at most once: the     *)
(* finalizer (841-848, 76-82), the defaults of a Management (86-89), or    *)
(* the status at the end of the pass (854-856, 139-145).  Between the two  *)
(* the object can change in the API server, which refuses the write of a   *)
(* copy whose resourceVersion is not the current one.                      *)
(***************************************************************************)
\* resourceVersions reached by an object
MaxResourceVersion == 6

CfKinds == {"ManagedCluster", "Management"}

\* the API server's compare-on-write
Conflict(copy, object) == copy.resourceVersion # object.resourceVersion

\* Client.Update(ctx, obj): the object without its status
ClientUpdate(copy, object) ==
    IF Conflict(copy, object)
    THEN [object |-> object, out |-> "conflict"]
    ELSE [object |-> [object EXCEPT !.finalizer = copy.finalizer,
                                    !.defaulted = copy.defaulted,
                                    !.spec = copy.spec,
                                    !.resourceVersion = @ + 1],
          out |-> "ok"]

\* Status().Update(ctx, obj): the status only; a status that does not change
\* leaves the resourceVersion
StatusUpdate(copy, object) ==
    IF Conflict(copy, object)
    THEN [object |-> object, out |-> "conflict"]
    ELSE IF copy.observed = object.observed
    THEN [object |-> object, out |-> "ok"]
    ELSE [object |-> [object EXCEPT !.observed = copy.observed,
                                    !.resourceVersion = @ + 1],
          out |-> "ok"]

\* the end of a pass: the object after it, the calls made, the error returned
CfResult(w, calls) == [object |-> w.object, calls |-> calls, err |-> w.out # "ok"]

\* the body of Update and the status write that ends it
CfStatusStep(copy, object) ==
    LET w == StatusUpdate([copy EXCEPT !.observed = copy.spec], object)
    IN CfResult(w, <<Call("StatusUpdate", "-", w.out)>>)

\* a bug: a refused finalizer write does not end the pass
CfUpdatePassGoesOn(kind, copy, object) ==
    IF ~copy.finalizer
    THEN LET w == ClientUpdate([copy EXCEPT !.finalizer = TRUE], object)
             s == CfStatusStep([copy EXCEPT !.finalizer = TRUE], object)
         IN IF w.out = "ok" THEN CfResult(w, <<Call("Update", "finalizer", w.out)>>)
            ELSE [s EXCEPT !.calls = <<Call("Update", "finalizer", w.out)>> \o @,
                           !.err = TRUE]
    ELSE IF kind = "Management" /\ ~copy.defaulted
    THEN LET w == ClientUpdate([copy EXCEPT !.defaulted = TRUE], object)
         IN CfResult(w, <<Call("Update", "defaults", w.out)>>)
    ELSE CfStatusStep(copy, object)

\* Update of a fetched copy
CfUpdatePass(kind, copy, object) ==
    IF ~copy.finalizer
    THEN LET w == ClientUpdate([copy EXCEPT !.finalizer = TRUE], object)
         IN CfResult(w, <<Call("Update", "finalizer", w.out)>>)
    ELSE IF kind = "Management" /\ ~copy.defaulted
    THEN LET w == ClientUpdate([copy EXCEPT !.defaulted = TRUE], object)
         IN CfResult(w, <<Call("Update", "defaults", w.out)>>)
    ELSE CfStatusStep(copy, object)

\* Reconcile: a pass starts by fetching the object
CfReconcile ==
    /\ cfKind \in CfKinds
    /\ cfPc = "idle"
    /\ cfObject.resourceVersion < MaxResourceVersion
    /\ cfCopy' = cfObject
    /\ cfPc' = "fetched"
    /\ cfPass' = [calls |-> <<Call("Get", "-", "ok")>>, err |-> FALSE]
    /\ UNCHANGED <<cfKind, cfObject, mcVars, mgVars, tvVars, svVars, pmVars, whVars, pvVars, ruVars>>

\* Update: the pass writes and returns; its copy goes with it
CfUpdate ==
    /\ cfPc = "fetched"
    /\ \E r \in {CfUpdatePass(cfKind, cfCopy, cfObject)} :
          /\ cfObject' = r.object
          /\ cfPass' = [calls |-> cfPass.calls \o r.calls, err |-> r.err]
    /\ cfPc' = "idle"
    /\ cfCopy' = NoCopy
    /\ UNCHANGED <<cfKind, mcVars, mgVars, tvVars, svVars, pmVars, whVars, pvVars, ruVars>>

\* the user or another controller changes the object, during a pass or between two
CfModify ==
    /\ cfKind \in CfKinds
    /\ cfObject.resourceVersion < MaxResourceVersion
    /\ cfObject' = [cfObject EXCEPT !.spec = IF @ = "a" THEN "b" ELSE "a",
                                    !.resourceVersion = @ + 1]
    /\ UNCHANGED <<cfKind, cfCopy, cfPc, cfPass, mcVars, mgVars, tvVars, svVars, pmVars, whVars, pvVars, ruVars>>

\* a new object: no finalizer, no status; only a Management has defaults to apply
InitConflict ==
    /\ cfKind \in CfKinds
    /\ cfObject = CfObj(1, FALSE, cfKind = "ManagedCluster", "a", "-")
    /\ cfCopy = NoCopy
    /\ cfPc = "idle"
    /\ cfPass = CfIdlePass
    /\ McIdleInit
    /\ MgIdleInit
    /\ TvIdleInit
    /\ SvIdleInit
    /\ PmIdleInit
    /\ WhIdleInit
    /\ PvIdleInit
    /\ RuIdleInit

NextConflict ==
    \/ CfReconcile
    \/ CfUpdate
    \/ CfModify

SpecConflict == InitConflict /\ [][NextConflict]_vars

(***************************************************************************)
(* Properties of the writes of the reconciled object (under SpecConflict)  *)
(***************************************************************************)
\* the write calls of a pass
CfWrites(p) == {i \in DOMAIN p.calls : p.calls[i].call \in {"Update", "StatusUpdate"}}

\* C28: a pass whose write (of the finalizer, of the defaults, of the status)
\* is refused because the object changed since the pass fetched it returns an
\* error, leaves the object as the API server holds it, and makes no other
\* write: the refused write is its only write and its last call.  No copy
\* outlives its pass, and every pass starts by fetching the object as it is
\* then.
C28_WriteConflictIsTransient ==
    [][/\ (cfPc = "fetched" /\ cfPc' = "idle" /\ Conflict(cfCopy, cfObject)) =>
             /\ cfPass'.err
             /\ cfObject' = cfObject
             /\ Cardinality(CfWrites(cfPass')) = 1
             /\ cfPass'.calls[Len(cfPass'.calls)].out = "conflict"
             /\ Len(cfPass'.calls) \in CfWrites(cfPass')
       /\ cfPc' = "idle" => cfCopy' = NoCopy
       /\ (cfPc = "idle" /\ cfPc' = "fetched") =>
             /\ cfCopy' = cfObject
             /\ cfPass'.calls = <<Call("Get", "-", "ok")>>]_vars

\* the write of the defaults of a Management has been refused, and the
\* object is as the concurrent change left it
C28_Witness ==
    /\ cfKind = "Management"
    /\ cfPc = "idle"
    /\ cfPass.err
    /\ CallOut(cfPass, "Update", "defaults", "conflict")
    /\ cfObject.finalizer
    /\ ~cfObject.defaulted
    /\ cfObject.spec = "b"

(***************************************************************************)
(* Admission of template deletions (ClusterTemplateValidator and           *)
(* ServiceTemplateValidator, internal/webhook).  The objects are those of  *)
(* internal/webhook/template_webhook_test.go.                              *)
(***************************************************************************)
\* ManagedClusters that exist at once
MaxClusters == 2

WhNamespaces == {"test", "new"}
WhTemplateNames == {"testTemplateFail", "testTemplate"}

errTemplateDeletionForbidden == "template deletion is forbidden"

\* a ManagedCluster: its namespace, its cluster template, its service templates
ManagedCluster(ns, t, svcs) == [namespace |-> ns, template |-> t, services |-> svcs]

ManagedClusterPool ==
    {ManagedCluster(ns, t, svcs) :
        ns \in WhNamespaces, t \in WhTemplateNames,
        svcs \in {{}} \cup {{n} : n \in WhTemplateNames}}

DeletedTemplates ==
    [kind : {"ClusterTemplate", "ServiceTemplate"}, namespace : WhNamespaces,
     name : WhTemplateNames]

\* the template name under which a ManagedCluster is indexed for a kind
ExtractTemplateName(mc, kind) ==
    IF kind = "ClusterTemplate" THEN {mc.template} ELSE mc.services

WhWarning(kind) ==
    IF kind = "ClusterTemplate"
    THEN "The ClusterTemplate object can't be removed if ManagedCluster objects referencing it still exist"
    ELSE "The ServiceTemplate object can't be removed if ManagedCluster objects referencing it still exist"

\* a bug: a ManagedCluster of any namespace blocks the deletion
ValidateDeleteAnyNamespace(template, clusters) ==
    IF \E mc \in clusters : template.name \in ExtractTemplateName(mc, template.kind)
    THEN [op |-> "ValidateDelete", warnings |-> <<WhWarning(template.kind)>>,
          err |-> errTemplateDeletionForbidden]
    ELSE [op |-> "ValidateDelete", warnings |-> <<>>, err |-> ""]

\* ValidateDelete: the ManagedClusters of the template's namespace are
\* listed by the name of the template
ValidateDelete(template, clusters) ==
    IF \E mc \in clusters : /\ mc.namespace = template.namespace
                            /\ template.name \in ExtractTemplateName(mc, template.kind)
    THEN [op |-> "ValidateDelete", warnings |-> <<WhWarning(template.kind)>>,
          err |-> errTemplateDeletionForbidden]
    ELSE [op |-> "ValidateDelete", warnings |-> <<>>, err |-> ""]

\* the API server asks the webhook whether the template may be deleted
WhValidateDelete ==
    /\ whTemplate.kind # "none"
    /\ whResult' = ValidateDelete(whTemplate, whClusters)
    /\ UNCHANGED <<whTemplate, whClusters, mcVars, mgVars, tvVars, svVars, pmVars, cfVars, pvVars, ruVars>>

\* a ManagedCluster is created
WhCreateCluster ==
    /\ whTemplate.kind # "none"
    /\ Cardinality(whClusters) < MaxClusters
    /\ \E mc \in ManagedClusterPool \ whClusters : whClusters' = whClusters \cup {mc}
    /\ whResult' = WhIdleResult
    /\ UNCHANGED <<whTemplate, mcVars, mgVars, tvVars, svVars, pmVars, cfVars, pvVars, ruVars>>

\* a ManagedCluster is deleted
WhDeleteCluster ==
    /\ \E mc \in whClusters : whClusters' = whClusters \ {mc}
    /\ whResult' = WhIdleResult
    /\ UNCHANGED <<whTemplate, mcVars, mgVars, tvVars, svVars, pmVars, cfVars, pvVars, ruVars>>

InitWebhook ==
    /\ whTemplate \in DeletedTemplates
    /\ whClusters = {}
    /\ whResult = WhIdleResult
    /\ McIdleInit
    /\ MgIdleInit
    /\ TvIdleInit
    /\ SvIdleInit
    /\ PmIdleInit
    /\ CfIdleInit
    /\ PvIdleInit
    /\ RuIdleInit

NextWebhook ==
    \/ WhValidateDelete
    \/ WhCreateCluster
    \/ WhDeleteCluster

SpecWebhook == InitWebhook /\ [][NextWebhook]_vars

(***************************************************************************)
(* Properties of the admission of template deletions (under SpecWebhook)   *)
(***************************************************************************)
\* the ManagedClusters that reference the template from its own namespace
WhBlocking ==
    {mc \in whClusters :
        /\ mc.namespace = whTemplate.namespace
        /\ IF whTemplate.kind = "ClusterTemplate" THEN mc.template = whTemplate.name
           ELSE whTemplate.name \in mc.services}

\* C29: the deletion of a ClusterTemplate or ServiceTemplate is refused, with
\* the error "template deletion is forbidden" and exactly one warning, if and
\* only if a ManagedCluster of the template's own namespace references it (as
\* its cluster template, as one of its service templates); otherwise it is
\* admitted without error and without warning, whatever ManagedClusters of
\* other namespaces or with other templates exist.
C29_DeletionForbiddenIffReferenced ==
    whResult.op = "ValidateDelete" =>
        IF WhBlocking # {}
        THEN /\ whResult.err = "template deletion is forbidden"
             /\ Len(whResult.warnings) = 1
        ELSE /\ whResult.err = ""
             /\ whResult.warnings = <<>>

\* the deletion of a ClusterTemplate has been admitted although a
\* ManagedCluster of another namespace references a template of its name,
\* and a ManagedCluster of its namespace references another template
C29_Witness ==
    /\ whResult.op = "ValidateDelete"
    /\ whTemplate = [kind |-> "ClusterTemplate", namespace |-> "test",
                     name |-> "testTemplateFail"]
    /\ ManagedCluster("new", "testTemplateFail", {}) \in whClusters
    /\ ManagedCluster("test", "testTemplate", {}) \in whClusters
    /\ whResult.err = ""
    /\ whResult.warnings = <<>>

(***************************************************************************)
(* Further properties of the ManagedCluster deletion (under Spec)          *)
(***************************************************************************)
\* the positions of the calls of a pass that returned an error; an
\* infrastructure object that is not found is an error of the gate
FailedCalls(p) ==
    {i \in DOMAIN p.calls :
        \/ p.calls[i].out = "error"
        \/ p.calls[i].call = "getCluster" /\ p.calls[i].out = "notfound"}

\* C30: a deletion pass that finds the primary release runs its steps in
\* the order delete add-on profile, delete primary release, provider release
\* gate; the first call that fails is the last call of the pass and the pass
\* returns an error, so that a failed profile deletion leaves the release
\* and the infrastructure objects alone and a failed release deletion leaves
\* the infrastructure objects alone; a pass in which nothing fails ran all
\* three steps, asks to be run again after DefaultRequeueInterval (10
\* seconds) and leaves the finalizer on the ManagedCluster.
C30_TeardownStepsInOrder ==
    [][(mcPass'.op = "Delete" /\ CallOut(mcPass', "GetHelmRelease", "-", "found")) =>
          LET p == mcPass'
              n == Len(p.calls)
          IN /\ p.calls[1].call = "GetHelmRelease"
             /\ n >= 2 /\ p.calls[2].call = "DeleteClusterProfile"
             /\ n >= 3 => p.calls[3].call = "DeleteHelmRelease"
             /\ n >= 4 => p.calls[4].call = "getProviders"
             /\ \A i \in DOMAIN p.calls :
                   i >= 4 => p.calls[i].call \in {"getProviders", "getCluster",
                                                  "machinesAvailable", "Patch"}
             /\ FailedCalls(p) \subseteq {n}
             /\ p.err <=> FailedCalls(p) # {}
             /\ p.calls[2].out = "error" => /\ n = 2
                                            /\ hr' = hr
                                            /\ infra' = infra
             /\ (n >= 3 /\ p.calls[3].out = "error") => /\ n = 3
                                                        /\ infra' = infra
             /\ p.err => p.requeueAfter = 0
             /\ ~p.err => /\ n >= 4
                          /\ p.requeueAfter = DefaultRequeueInterval
                          /\ p.requeueAfter = 10
                          /\ mcFinalizer' /\ mcFinalizer
                          /\ mcPresent']_vars

\* a deletion pass ran the three steps without error and asked for a requeue
C30_Witness ==
    /\ mcPass.op = "Delete"
    /\ CallOut(mcPass, "DeleteClusterProfile", "-", "ok")
    /\ CallOut(mcPass, "DeleteHelmRelease", "-", "ok")
    /\ CallOut(mcPass, "getProviders", "-", "ok")
    /\ ~mcPass.err
    /\ mcPass.requeueAfter = DefaultRequeueInterval
    /\ mcFinalizer
    /\ mcPresent

(***************************************************************************)
(* Properties of the status of the ManagedCluster (under Spec)             *)
(***************************************************************************)
\* the positions of the status writes of a pass
StatusWrites(p) == {i \in DOMAIN p.calls : p.calls[i].call = "StatusUpdate"}

\* an update pass that went past the finalizer step
PastFinalizer(p) == p.op = "Update" /\ ~Called(p, "UpdateManagedCluster")

\* C31: every update pass that goes past the finalizer step, whatever its
\* exit (success, error, early return, requeue), writes the status exactly
\* once, as its last call; when the write goes through, observedGeneration is
\* the generation of the object and Ready is False if another condition is
\* False, else Unknown if another condition is Unknown, else True; when the
\* write fails, nothing is persisted and the pass returns an error.
C31_StatusWrittenOnceEveryPass ==
    [][PastFinalizer(mcPass') =>
          LET p == mcPass'
              others == CondTypes \ {ReadyCondition}
          IN /\ StatusWrites(p) = {Len(p.calls)}
             /\ CallOut(p, "StatusUpdate", "-", "ok") =>
                   /\ mcObservedGeneration' = Generation
                   /\ mcConditions'[ReadyCondition] =
                         IF \E t \in others : mcConditions'[t] = "False" THEN "False"
                         ELSE IF \E t \in others : mcConditions'[t] = "Unknown"
                         THEN "Unknown" ELSE "True"
             /\ CallOut(p, "StatusUpdate", "-", "error") =>
                   /\ p.err
                   /\ mcConditions' = mcConditions
                   /\ mcObservedGeneration' = mcObservedGeneration]_vars

\* a pass that returned an error (its template is not valid) has written the
\* status, with Ready False
C31_Witness ==
    /\ PastFinalizer(mcPass)
    /\ mcPass.err
    /\ ~Called(mcPass, "ReconcileHelmRelease")
    /\ CallOut(mcPass, "StatusUpdate", "-", "ok")
    /\ mcObservedGeneration = Generation
    /\ mcConditions[TemplateReadyCondition] = "False"
    /\ mcConditions[ReadyCondition] = "False"

(***************************************************************************)
(* The ProviderValidator of the end-to-end tests                           *)
(* (test/e2e/clusterdeployment/providervalidator.go).  The map             *)
(* resourcesToValidate is the set of its keys; which validators succeed in *)
(* a call of Validate is an input of the call.                             *)
(***************************************************************************)
PvTemplates ==
    {"TemplateAWSStandaloneCP", "TemplateAWSHostedCP", "TemplateAWSEKS",
     "TemplateAzureStandaloneCP", "TemplateAzureHostedCP", "TemplateVSphereStandaloneCP",
     "TemplateAdoptedCluster", "other"}

ValidationActionDeploy == "deploy"
ValidationActionDelete == "delete"

ProviderValidator(template, action, resources, order) ==
    [template |-> template, action |-> action, resourcesToValidate |-> resources,
     resourceOrder |-> order]

\* NewProviderValidator, lines 49-107
NewProviderValidator(template, action) ==
    IF action = ValidationActionDeploy
    THEN LET resources == {"clusters", "machines", "control-planes", "csi-driver"}
             order == <<"clusters", "machines", "control-planes", "csi-driver">>
         IN CASE template \in {"TemplateAWSStandaloneCP", "TemplateAWSHostedCP"} ->
                    ProviderValidator(template, action, resources \cup {"ccm"},
                                      Append(order, "ccm"))
              [] template = "TemplateAWSEKS" ->
                    ProviderValidator(template, action,
                        {"clusters", "machines", "aws-managed-control-planes",
                         "csi-driver", "ccm"},
                        <<"clusters", "machines", "aws-managed-control-planes",
                          "csi-driver", "ccm">>)
              [] template \in {"TemplateAzureStandaloneCP", "TemplateAzureHostedCP",
                               "TemplateVSphereStandaloneCP"} ->
                    ProviderValidator(template, action, resources \ {"csi-driver"}, order)
              [] template = "TemplateAdoptedCluster" ->
                    ProviderValidator(template, action, {"sveltoscluster"}, order)
              [] OTHER -> ProviderValidator(template, action, resources, order)
    ELSE LET resources == {"clusters", "machinedeployments"}
             order == <<"clusters", "machinedeployments">>
         IN IF template = "TemplateAWSEKS"
            THEN ProviderValidator(template, action,
                                   resources \cup {"aws-managed-control-planes"},
                                   Append(order, "aws-managed-control-planes"))
            ELSE ProviderValidator(template, action, resources \cup {"control-planes"},
                                   Append(order, "control-planes"))

RECURSIVE validateLoopRunsAll(_, _, _, _, _, _)
\* a bug: the first error is kept, the later validators still run
validateLoopRunsAll(order, i, resources, ok, ran, err) ==
    IF i > Len(order) THEN [resourcesToValidate |-> resources, ran |-> ran, err |-> err]
    ELSE LET name == order[i]
         IN IF name \notin resources
            THEN validateLoopRunsAll(order, i + 1, resources, ok, ran, err)
            ELSE IF name \notin ok
            THEN validateLoopRunsAll(order, i + 1, resources, ok, Append(ran, name),
                                     IF err = "" THEN name ELSE err)
            ELSE validateLoopRunsAll(order, i + 1, resources \ {name}, ok,
                                     Append(ran, name), err)

RECURSIVE validateLoopKeepsValidators(_, _, _, _, _, _)
\* a bug: a validator that has succeeded stays in the map
validateLoopKeepsValidators(order, i, resources, ok, ran, err) ==
    IF i > Len(order) THEN [resourcesToValidate |-> resources, ran |-> ran, err |-> err]
    ELSE LET name == order[i]
         IN IF name \notin resources
            THEN validateLoopKeepsValidators(order, i + 1, resources, ok, ran, err)
            ELSE IF name \notin ok
            THEN [resourcesToValidate |-> resources, ran |-> Append(ran, name),
                  err |-> name]
            ELSE validateLoopKeepsValidators(order, i + 1, resources, ok,
                                             Append(ran, name), err)

RECURSIVE validateLoop(_, _, _, _, _, _)
\* Validate, the loop from the i-th name of resourceOrder on: the validators
\* left, those run, the error (the name of the resource that failed; "" is nil)
validateLoop(order, i, resources, ok, ran, err) ==
    IF i > Len(order) THEN [resourcesToValidate |-> resources, ran |-> ran, err |-> err]
    ELSE LET name == order[i]
         IN IF name \notin resources
            THEN validateLoop(order, i + 1, resources, ok, ran, err)
            ELSE IF name \notin ok
            THEN [resourcesToValidate |-> resources, ran |-> Append(ran, name),
                  err |-> name]
            ELSE validateLoop(order, i + 1, resources \ {name}, ok, Append(ran, name), err)

\* ProviderValidator.Validate; ok: the resources whose validator succeeds now
Validate ==
    /\ pvValidator.action # "none"
    /\ \E ok \in SUBSET pvValidator.resourcesToValidate :
         \E r \in {validateLoop(pvValidator.resourceOrder, 1,
                                pvValidator.resourcesToValidate, ok, <<>>, "")} :
            /\ pvValidator' = [pvValidator EXCEPT
                                  !.resourcesToValidate = r.resourcesToValidate]
            /\ pvCall' = [op |-> "Validate", before |-> pvValidator.resourcesToValidate,
                          ok |-> ok, ran |-> r.ran, err |-> r.err]
    /\ UNCHANGED <<mcVars, mgVars, tvVars, svVars, pmVars, cfVars, whVars, ruVars>>

InitValidator ==
    /\ \E template \in PvTemplates, action \in {ValidationActionDeploy, ValidationActionDelete} :
          pvValidator = NewProviderValidator(template, action)
    /\ pvCall = PvIdleCall
    /\ McIdleInit
    /\ MgIdleInit
    /\ TvIdleInit
    /\ SvIdleInit
    /\ PmIdleInit
    /\ CfIdleInit
    /\ WhIdleInit
    /\ RuIdleInit

NextValidator == Validate

SpecValidator == InitValidator /\ [][NextValidator]_vars

(***************************************************************************)
(* Properties of the ProviderValidator (under SpecValidator)               *)
(***************************************************************************)
\* the names of resourceOrder that had a validator when the call began
PvExpected ==
    LET Had(name) == name \in pvCall.before
    IN SelectSeq(pvValidator.resourceOrder, Had)

\* C32: a call of Validate runs the validators in the order of resourceOrder,
\* skipping the names that have no validator; it stops at the first validator
\* that fails and returns its error, no later validator having run; it
\* returns nil when every one of them has run and succeeded.
C32_ValidateStopsAtFirstError ==
    pvCall.op = "Validate" =>
        LET ran == pvCall.ran
        IN /\ Len(ran) <= Len(PvExpected)
           /\ ran = SubSeq(PvExpected, 1, Len(ran))
           /\ \A i \in DOMAIN ran : i < Len(ran) => ran[i] \in pvCall.ok
           /\ pvCall.err # "" => /\ ran # <<>>
                                 /\ ran[Len(ran)] = pvCall.err
                                 /\ pvCall.err \notin pvCall.ok
           /\ pvCall.err = "" => /\ ran = PvExpected
                                 /\ \A i \in DOMAIN ran : ran[i] \in pvCall.ok

\* the validator of machines has failed and the validator of the control
\* planes, which would have succeeded, has not run
C32_Witness ==
    /\ pvCall.op = "Validate"
    /\ pvValidator.template = "TemplateAWSStandaloneCP"
    /\ pvValidator.action = ValidationActionDeploy
    /\ pvCall.ran = <<"clusters", "machines">>
    /\ pvCall.err = "machines"
    /\ "control-planes" \in pvCall.ok
    /\ "control-planes" \in pvValidator.resourcesToValidate

\* the resources whose validator a call ran
PvRan(call) == {call.ran[i] : i \in DOMAIN call.ran}

C38_ValidatedResourcesAreOrdered ==
    /\ \A name \in pvValidator.resourcesToValidate :
          \E i \in DOMAIN pvValidator.resourceOrder : pvValidator.resourceOrder[i] = name
    /\ (pvCall.op = "Validate" /\ pvCall.err = "") => pvValidator.resourcesToValidate = {}

(***************************************************************************)
(* Management: the deletion pass and a Core that was never defaulted       *)
(* (under SpecMgmt)                                                        *)
(***************************************************************************)
\* C34: a deletion pass of the Management never dereferences a nil Core: every
\* deletion pass that runs completes, with or without error, and does not crash,
\* also for a Management created without Core and deleted after the pass that
\* adds the finalizer
C34_DeleteNeverDereferencesNilCore ==
    mgPass.op = "Delete" => ~mgPass.panic

(***************************************************************************)
(* The conditions of the infra object in the aggregate (under Spec)        *)
(***************************************************************************)
\* C35: no condition copied from the infra object is lost before aggregation:
\* whenever the infra object reports a condition with status False, the Ready
\* condition persisted by that pass is False, also when the copied condition
\* has the type of the aggregate itself (Ready)
C35_InfraFalseMakesReadyFalse ==
    [][(/\ PastFinalizer(mcPass')
        /\ CallOut(mcPass', "ListClusters", "false", "found")
        /\ CallOut(mcPass', "StatusUpdate", "-", "ok")) =>
            mcConditions'[ReadyCondition] = "False"]_vars

(***************************************************************************)
(* The chart of a ServiceTemplate: the chart the Template validator        *)
(* records in status.chartRef (template_controller.go, lines 123-170,      *)
(* 270-326) and the chart getServiceTemplateRepoURL reads                  *)
(* (managedcluster_controller.go, lines 1068-1094).  Charts are told apart *)
(* by namespace and name; a HelmRepository by the namespace it is in.      *)
(***************************************************************************)
SystemNamespace == "hmc-system"

\* ServiceTemplate: metadata and spec.helm; managed tells templateManagedByHMC
ServiceTemplate(name, managed, chartName, chartRef) ==
    [name |-> name, namespace |-> "ns", managed |-> managed, chartName |-> chartName,
     chartRef |-> chartRef]

RuServiceTemplates ==
    {ServiceTemplate("ingress", m, h[1], h[2]) :
        m \in BOOLEAN,
        h \in {<<"ingress", NoChartRef>>, <<"ingress-nginx", NoChartRef>>,
               <<"", ChartKey("charts", "shared")>>,
               <<"ingress-nginx", ChartKey("charts", "shared")>>,
               <<"", NoChartRef>>}}

RuChartPool ==
    {ChartKey("ns", "ingress"), ChartKey("ns", "ingress-nginx"),
     ChartKey("charts", "shared"), ChartKey("charts", "ingress-nginx")}

RuRepoPool == {"ns", "charts"}

\* ReconcileTemplate, lines 123-170: the chart of the template, the objects it
\* creates on the way: [err, chart, charts, repos]
RuTemplateChart(template, charts, repos) ==
    IF template.chartRef # NoChartRef
    THEN IF template.chartRef \notin charts
         THEN [err |-> "get chart failed", chart |-> NoChartRef, charts |-> charts,
               repos |-> repos]
         ELSE [err |-> "", chart |-> template.chartRef, charts |-> charts, repos |-> repos]
    ELSE IF template.chartName = ""
    THEN [err |-> "neither chartName nor chartRef is set", chart |-> NoChartRef,
          charts |-> charts, repos |-> repos]
    ELSE LET namespace == IF template.namespace = "" THEN SystemNamespace
                          ELSE template.namespace
             \* reconcileHelmChart: the chart is named after the template
             helmChart == ChartKey(namespace, template.name)
         IN [err |-> "", chart |-> helmChart, charts |-> charts \cup {helmChart},
             repos |-> IF template.namespace = SystemNamespace \/ ~template.managed
                       THEN repos \cup {namespace} ELSE repos]

\* one pass of the Template validator on the ServiceTemplate.  What follows the
\* chart step is an input: the pass writes a valid status, writes an invalid
\* one, or returns before it writes
RuReconcileTemplate ==
    /\ \E rest \in {"valid", "invalid", "unwritten"} :
       \E r \in {RuTemplateChart(ruTemplate, ruCharts, ruRepos)} :
          /\ ruCharts' = r.charts
          /\ ruRepos' = r.repos
          /\ ruStatus' = IF r.err # "" \/ rest = "unwritten" THEN ruStatus
                         ELSE [chartRef |-> r.chart, valid |-> (rest = "valid")]
    /\ ruLookup' = RuIdleLookup
    /\ UNCHANGED <<ruTemplate, mcVars, mgVars, tvVars, svVars, pmVars, cfVars, whVars, pvVars>>

\* getServiceTemplateRepoURL: [op, chart, err]; chart is the chart consulted
getServiceTemplateRepoURLOf(tmpl, status, charts, repos) ==
    IF status.chartRef = NoChartRef
    THEN [op |-> "getServiceTemplateRepoURL", chart |-> NoChartRef,
          err |-> "status has not been updated yet"]
    ELSE LET chart == ChartKey(status.chartRef.namespace, tmpl.chartName)
         IN IF chart \notin charts
            THEN [op |-> "getServiceTemplateRepoURL", chart |-> chart,
                  err |-> "failed to get HelmChart"]
            ELSE IF chart.namespace \notin repos
            THEN [op |-> "getServiceTemplateRepoURL", chart |-> chart,
                  err |-> "failed to get HelmRepository"]
            ELSE [op |-> "getServiceTemplateRepoURL", chart |-> chart, err |-> ""]

\* updateServices resolves the repository of the ServiceTemplate
RuGetRepoURL ==
    /\ ruLookup' = getServiceTemplateRepoURLOf(ruTemplate, ruStatus, ruCharts, ruRepos)
    /\ UNCHANGED <<ruTemplate, ruStatus, ruCharts, ruRepos>>
    /\ UNCHANGED <<mcVars, mgVars, tvVars, svVars, pmVars, cfVars, whVars, pvVars>>

\* a chart or a repository appears or disappears
RuObjectsChange ==
    /\ \/ \E c \in RuChartPool :
            /\ ruCharts' = IF c \in ruCharts THEN ruCharts \ {c} ELSE ruCharts \cup {c}
            /\ UNCHANGED ruRepos
       \/ \E n \in RuRepoPool :
            /\ ruRepos' = IF n \in ruRepos THEN ruRepos \ {n} ELSE ruRepos \cup {n}
            /\ UNCHANGED ruCharts
    /\ ruLookup' = RuIdleLookup
    /\ UNCHANGED <<ruTemplate, ruStatus, mcVars, mgVars, tvVars, svVars, pmVars, cfVars, whVars, pvVars>>

InitRepoURL ==
    /\ ruTemplate \in RuServiceTemplates
    /\ ruStatus = [chartRef |-> NoChartRef, valid |-> FALSE]
    /\ ruCharts \in SUBSET {ChartKey("charts", "shared"), ChartKey("charts", "ingress-nginx")}
    /\ ruRepos \in SUBSET {"charts"}
    /\ ruLookup = RuIdleLookup
    /\ McIdleInit
    /\ MgIdleInit
    /\ TvIdleInit
    /\ SvIdleInit
    /\ PmIdleInit
    /\ CfIdleInit
    /\ WhIdleInit
    /\ PvIdleInit

NextRepoURL ==
    \/ RuReconcileTemplate
    \/ RuGetRepoURL
    \/ RuObjectsChange

SpecRepoURL == InitRepoURL /\ [][NextRepoURL]_vars

\* C36: for each installed service the chart consulted for the repository URL is
\* the chart recorded in status.chartRef of the ServiceTemplate, same name and
\* namespace, so the lookup succeeds for every valid ServiceTemplate whose chart
\* and repository exist, also when the name of the template differs from its
\* chart name or it refers to a chart directly
C36_RepoURLFromStatusChartRef ==
    (ruLookup.op = "getServiceTemplateRepoURL" /\ ruStatus.chartRef # NoChartRef) =>
        /\ ruLookup.chart = ruStatus.chartRef
        /\ (/\ ruStatus.valid
            /\ ruStatus.chartRef \in ruCharts
            /\ ruStatus.chartRef.namespace \in ruRepos) => ruLookup.err = ""

(***************************************************************************)
(* The provider lists of the status after a pass (under SpecParse)         *)
(***************************************************************************)
\* C37: after a successful validation pass each provider list of the status is
\* a function of the current spec and chart only: the override of the spec if
\* it is not empty, otherwise the list split from the annotation of the chart,
\* and empty when both are empty; a list written by an earlier pass does not
\* survive the removal of its override and annotation
C37_ProviderListsFromSpecAndChart ==
    (pmPass.op = "Reconcile" /\ pmPass.err = "" /\ pmPass.wrote) =>
        \A l \in ProviderListNames :
            pmTemplate.status.providers[l] =
                IF Len(pmTemplate.providers[l]) > 0 THEN pmTemplate.providers[l]
                ELSE IF pmChart.providers[l] # <<>> THEN Split(pmChart.providers[l], ",")
                ELSE <<>>

(***************************************************************************)
(* A validator pass that fails before the artifact is looked at            *)
(* (under SpecTmpl)                                                        *)
(***************************************************************************)
\* the pass returned an error before helm.ArtifactReady was reached
TvFailedBeforeArtifact(p) ==
    p.op = "Reconcile" /\ p.err # "" /\ ~Called(p, "ArtifactReady")

\* C40: a pass of the Template validator that fails before the artifact
\* readiness step (the chart referred to cannot be fetched or is of another
\* kind, neither chartName nor chartRef is set, the repository or the chart
\* cannot be created or updated) leaves the persisted status as it was: a
\* valid = true and a chartRef recorded earlier stay in place
C40_EarlyFailureLeavesStatus ==
    [][TvFailedBeforeArtifact(tvPass') =>
          /\ tvStatus' = tvStatus
          /\ ~Called(tvPass', "StatusUpdate")
          /\ ~tvPass'.wrote]_vars

\* a template validated earlier whose chart can no longer be fetched: the pass
\* fails and the status still says valid, with its chartRef
C40_Witness ==
    /\ TvFailedBeforeArtifact(tvPass)
    /\ tvPass.err = TvMessage("getChart")
    /\ tvStatus.valid
    /\ tvStatus.chartRef = "HelmChart"
    /\ tvStatus.validationError = ""

(***************************************************************************)
(* Termination of the deletion of a ManagedCluster.  The work queue runs   *)
(* the deletion pass again after an error or a timed requeue, and API      *)
(* failures are transient: a pass in which no call fails is taken          *)
(* eventually.  The machines go away, and the release engine removes the   *)
(* primary release once no infra object holds the blocking finalizer.      *)
(***************************************************************************)
\* a deletion pass in which no API call fails
DeleteWithoutFault ==
    /\ mcPresent /\ mcDeleting
    /\ Delete(NoFail)
    /\ UNCHANGED <<mgVars, tvVars, svVars, pmVars, cfVars, whVars, pvVars, ruVars>>

\* the release engine removes the release when no infra object blocks it
HelmReleaseRemovedUnblocked ==
    /\ \A p \in providerGVKs : infra[p] # "blocked"
    /\ HelmReleaseRemoved

SpecDeletionFair ==
    /\ Spec
    /\ WF_vars(DeleteWithoutFault)
    /\ WF_vars(MachineRemoved)
    /\ WF_vars(HelmReleaseRemovedUnblocked)

\* the providers of the template that releaseCluster recognises
RecognisedProviders ==
    {tmplProviders[i] : i \in DOMAIN tmplProviders} \cap providerGVKs

\* C39: the deletion of a ManagedCluster terminates: when the deletion pass is
\* run again and again, the template stays retrievable, its infrastructure
\* provider is recognised, the machines all go away in the end and the release
\* engine removes the primary release once the infra object is unblocked, the
\* finalizer of the ManagedCluster is removed in the end
C39_DeletionTerminates ==
    (mcPresent /\ mcDeleting /\ Cardinality(RecognisedProviders) <= 1) ~> ~mcFinalizer

\* the infra object of the one provider was released by the gate, the release
\* went away and the last pass removed the finalizer
C39_Witness ==
    /\ mcDeleting /\ ~mcFinalizer /\ ~mcPresent
    /\ tmplProviders = <<"aws">>
    /\ infra["aws"] = "released"
    /\ hrSeenInDelete /\ hrDeleteIssued
    /\ hr = "absent"
    /\ CallOut(mcPass, "UpdateManagedCluster", "-", "ok")

====
